---- MODULE Spec2Model ----
(***************************************************************************)
(* Model of the scenario execution engine of kafka-test-py: the six        *)
(* commands of cli.py, the two pipelines (KafkaCliRunner.run_scenarios and *)
(* ScenarioRunner.run_scenarios), run_scenario, the worker orchestrators   *)
(* (_run_timed_producers), and the data model of core/models.py.           *)
(*                                                                         *)
(* Floating point values are modelled exactly: a mean is kept as the       *)
(* fraction [num, den] that the division is applied to.                    *)
(***************************************************************************)
EXTENDS Integers, Sequences, FiniteSets, TLC

\* ------------------------------------------------------------------ bounds
MaxScenarios == 3    \* longest scenario list
MaxProducers == 2    \* most producers of one scenario
MaxWorkers == 4      \* most producers of a scenario list, all scenarios together
MaxDuration == 2     \* longest scenario duration of a timed worker, in seconds
MaxCalls == 2        \* most calls of the topic functions in a row
MaxFields == 5       \* most comma-separated fields of a scenario string
MaxLines == 3        \* most lines of a scenario file
MaxSends == 3        \* most produce calls of a worker whose deliveries are followed

\* ------------------------------------------------------------------ state
VARIABLES
    command,          \* the cli.py command that was invoked
    keep_topics,      \* the runner's keep_topics option
    scenarios,        \* the scenario list handed to the runner
    pc,               \* position of the main thread
    idx,              \* index of the scenario of the current loop iteration
    topics,           \* topics existing on the broker (scenario names)
    topic_log,        \* topic requests issued, in order
    worker,           \* the futures of the current scenario, by worker index
    submitted,        \* number of workers submitted to the executor
    launch_log,       \* scenario index of every worker launch, in order
    fi,               \* index of the future the orchestrator waits for
    metrics,          \* _run_timed_producers: the metrics list
    producer_errors,  \* _run_timed_producers: number of collected errors
    results,          \* run_scenarios: the results list
    summary,          \* rows of summary.csv
    results_csv,      \* rows of results/<scenario>/results.csv, by scenario
    report,           \* number of summary rows shown by each generated report
    sleeps,           \* scenario index after which each cooldown was slept
    error,            \* the exception that left the runner ("none" if none)
    exit_status,      \* exit status of the command, once pc = "exited"
    \* -- core/models.py, a ScenarioResult built directly from its fields
    m_pc,             \* "input", "constructed" or "evaluated"
    m_input,          \* the constructor's arguments
    m_result,         \* the ScenarioResult
    m_success,        \* the value read from result.success
    \* -- ScenarioRunner._run_timed_producer, one worker; times in milliseconds
    py_pc,            \* position of the worker
    py_throughput,    \* its throughput argument (msg/sec, -1 unlimited)
    py_duration,      \* its duration argument (seconds)
    py_now,           \* time.time()
    py_start_time,
    py_end_time,
    py_batch_start,
    py_message_count,
    py_batch_count,
    py_first_send,    \* time of the first produce call of the last batch
    py_last_send,     \* time of the last produce call
    py_slept,         \* length of the last throttle sleep
    py_delivery_failed, \* messages whose delivery report carried an error
    py_send_error,    \* producer.produce raised and ended the loop
    py_instant,       \* no produce call and no flush has taken time so far
    py_metrics,       \* the ProducerMetrics returned
    \* -- KafkaCliRunner._run_producer_perf_test, one worker and its child process;
    \* times in seconds
    cw_pc,            \* position of the worker
    cw_throughput,    \* the scenario's throughput (msg/sec, -1 unlimited)
    cw_duration,      \* the scenario's duration
    cw_num_messages,  \* --num-records of the child
    cw_now,           \* time.time()
    cw_start_time,
    cw_time_elapsed,
    cw_signals,       \* signals sent to the child, in order
    child,            \* "none", "running" or "exited"
    child_rate,       \* records the child sends per second
    child_sent,       \* records the child has sent
    child_exit,       \* why the child exited
    child_exit_time,
    child_last_send,  \* start of the last interval in which the child sent
    cw_metrics,       \* record_count of the ProducerMetrics returned
    \* -- utils/topic.py and the topic methods of KafkaCliRunner, called directly
    tb_broker,        \* the topics of the broker
    tb_calls,         \* the calls made, in order: arguments, broker before, outcome
    \* -- KafkaScenario.from_string on one string
    sp_pc,            \* "input" or "parsed"
    sp_fields,        \* the fields the string was written from
    sp_comment,       \* the comment appended to it
    sp_wrap,          \* the whitespace around it
    sp_line,          \* the string: a sequence of characters
    sp_result,        \* the scenario returned, or the exception raised
    \* -- load_scenarios on a scenario file
    ld_pc,            \* "input" or "loaded"
    ld_backend,       \* "cli" (KafkaCliRunner) or "python" (ScenarioRunner)
    ld_file,          \* the lines of the file
    ld_scenarios,     \* the list returned
    ld_reports,       \* the parse errors printed
    \* -- utils.config.get_bootstrap_servers on one config dictionary
    cf_pc,            \* "input" or "returned"
    cf_input,         \* the dictionary as the caller built it
    cf_config,        \* the dictionary object handed to the function
    cf_result,        \* the value returned, or the exception raised
    dl_pc,            \* position of _run_timed_producer: loop, flush, metrics, returned
    dl_message_count, \* message_count
    dl_in_flight,     \* messages produced whose delivery callback has not run
    dl_latency_sum,   \* latency_sum
    dl_max_latency,   \* max_latency
    dl_acked,         \* latencies of the acknowledged messages, in callback order
    dl_failed,        \* delivery callbacks that got an error
    dl_send_error,    \* producer.produce raised and ended the loop
    dl_metrics        \* the ProducerMetrics returned

pipeVars == <<command, keep_topics, scenarios, pc, idx, topics, topic_log,
              worker, submitted, launch_log, fi, metrics, producer_errors,
              results, summary, results_csv, report, sleeps, error, exit_status>>

modelsVars == <<m_pc, m_input, m_result, m_success>>

pyVars == <<py_pc, py_throughput, py_duration, py_now, py_start_time, py_end_time,
            py_batch_start, py_message_count, py_batch_count, py_first_send,
            py_last_send, py_slept, py_delivery_failed,
            py_send_error, py_instant, py_metrics>>

cwVars == <<cw_pc, cw_throughput, cw_duration, cw_num_messages, cw_now,
            cw_start_time, cw_time_elapsed, cw_signals, child, child_rate,
            child_sent, child_exit, child_exit_time, child_last_send, cw_metrics>>

topicVars == <<tb_broker, tb_calls>>

parseVars == <<sp_pc, sp_fields, sp_comment, sp_wrap, sp_line, sp_result>>

loadVars == <<ld_pc, ld_backend, ld_file, ld_scenarios, ld_reports>>

configVars == <<cf_pc, cf_input, cf_config, cf_result>>

deliveryVars == <<dl_pc, dl_message_count, dl_in_flight, dl_latency_sum,
                  dl_max_latency, dl_acked, dl_failed, dl_send_error, dl_metrics>>

inputVars == <<parseVars, loadVars, configVars, deliveryVars>>

nonPipeVars == <<modelsVars, pyVars, cwVars, topicVars, inputVars>>
nonModelsVars == <<pipeVars, pyVars, cwVars, topicVars, inputVars>>
nonPyVars == <<pipeVars, modelsVars, cwVars, topicVars, inputVars>>
nonCwVars == <<pipeVars, modelsVars, pyVars, topicVars, inputVars>>
nonTopicVars == <<pipeVars, modelsVars, pyVars, cwVars, inputVars>>
nonParseVars ==
    <<pipeVars, modelsVars, pyVars, cwVars, topicVars, loadVars, configVars,
      deliveryVars>>
nonLoadVars ==
    <<pipeVars, modelsVars, pyVars, cwVars, topicVars, parseVars, configVars,
      deliveryVars>>
nonConfigVars ==
    <<pipeVars, modelsVars, pyVars, cwVars, topicVars, parseVars, loadVars,
      deliveryVars>>
nonDeliveryVars ==
    <<pipeVars, modelsVars, pyVars, cwVars, topicVars, parseVars, loadVars,
      configVars>>

vars == <<pipeVars, modelsVars, pyVars, cwVars, topicVars, inputVars>>

\* ------------------------------------------------------------------ helpers
RECURSIVE SumSeq(_)
SumSeq(s) == IF s = <<>> THEN 0 ELSE Head(s) + SumSeq(Tail(s))

RECURSIVE MaxSeq(_)
MaxSeq(s) ==
    IF Len(s) = 1 THEN Head(s)
    ELSE LET r == MaxSeq(Tail(s)) IN IF Head(s) >= r THEN Head(s) ELSE r

Max2(a, b) == IF a >= b THEN a ELSE b

\* ------------------------------------------------------------------ data model
\* ProducerMetrics (duration and record_size do not enter any decision)
ProducerMetrics(tp, avg, mx, rc) ==
    [throughput |-> tp, avg_latency |-> avg, max_latency |-> mx, record_count |-> rc]

ZeroMetrics == ProducerMetrics(0, 0, 0, 0)

\* what worker j reports when it delivered records (the values of test_models.py)
OkMetrics(j) ==
    ProducerMetrics(100 + 20 * (j - 1), 10 + 2 * (j - 1), 50 + 10 * (j - 1),
                    6000 + 1200 * (j - 1))

KafkaScenario(n, p) ==
    [name |-> n, msg_size |-> 1024, throughput |-> 5000, duration |-> 60,
     producers |-> p]

ScenarioResult(sc, pm, tt, al, ml) ==
    [scenario |-> sc, producer_metrics |-> pm, total_throughput |-> tt,
     avg_latency |-> al, max_latency |-> ml]

\* any(m.record_count > 0 for m in producer_metrics)
RECURSIVE AnyRecords(_)
AnyRecords(pm) ==
    IF pm = <<>> THEN FALSE
    ELSE IF Head(pm).record_count > 0 THEN TRUE ELSE AnyRecords(Tail(pm))

MutSuccessByThroughput(r) == r.total_throughput > 0

success(r) == AnyRecords(r.producer_metrics)

\* ------------------------------------------------------------------ cli.py
RunAllCommands == {"run", "run-cli", "run-python"}
RunSingleCommands == {"run-single", "run-single-cli", "run-single-python"}
Commands == RunAllCommands \cup RunSingleCommands

\* the runner class each command constructs
Backend(cmd) ==
    IF cmd \in {"run-python", "run-single-python"} THEN "python" ELSE "cli"

IsSingle(cmd) == cmd \in RunSingleCommands

RECURSIVE failed_scenarios(_)
failed_scenarios(res) ==
    IF res = <<>> THEN 0
    ELSE (IF success(Head(res)) THEN 0 ELSE 1) + failed_scenarios(Tail(res))

\* Exit status of each command, from the exception that ended it (err) and the
\* results it got back (res).
ExitStatus(cmd, err, res) ==
    CASE cmd \in {"run-python", "run-cli"} ->
            \* an exception of the constructor is not caught; run_critical exits 1
            IF err # "none" THEN 1
            ELSE IF failed_scenarios(res) > 0 THEN 1 ELSE 0
      [] cmd = "run" ->
            \* the outer except only prints; the inner one exits 1
            IF err = "InitError" THEN 0
            ELSE IF err # "none" THEN 1
            ELSE IF failed_scenarios(res) > 0 THEN 1 ELSE 0
      [] cmd \in {"run-single-cli", "run-single-python"} ->
            \* run_critical exits 1; the summary is printed and the command returns
            IF err # "none" THEN 1 ELSE 0
      [] cmd = "run-single" ->
            IF err # "none" THEN 1
            ELSE IF ~success(res[1]) THEN 1 ELSE 0

\* ------------------------------------------------------------------ topics
\* The broker's topics are a set of Topic records with distinct names. A call of a
\* topic function gives the broker after it, the requests it sent and its result
\* ("True", "False" or "raised").
Topic(n, p) == [name |-> n, partitions |-> p]

TopicNames(b) == {tpc.name : tpc \in b}

Call(b, reqs, res) == [broker |-> b, requests |-> reqs, result |-> res]

\* what the broker does with the requests of one call: it serves them, it cannot
\* be reached (the listing fails), or it refuses the create or delete request
BrokerOutcomes == {"ok", "list_fails", "request_fails"}

\* create_topic without "Check if topic already exists"
MutCreateTopicNoExistsCheck(b, topic_name, parts, o) ==
    IF o # "ok" \/ topic_name \in TopicNames(b)
      THEN Call(b, <<"create">>, "raised")
      ELSE Call(b \cup {Topic(topic_name, parts)}, <<"create">>, "True")

\* utils.topic.create_topic: admin.list_topics raises when the broker cannot be
\* reached; f.result() raises when the creation failed
create_topic(b, topic_name, parts, o) ==
    IF o = "list_fails" THEN Call(b, <<"list">>, "raised")
    ELSE IF topic_name \in TopicNames(b) THEN Call(b, <<"list">>, "True")
    ELSE IF o = "request_fails" THEN Call(b, <<"list", "create">>, "raised")
    ELSE Call(b \cup {Topic(topic_name, parts)}, <<"list", "create">>, "True")

\* _create_topic_cli returning False where it raises
MutCreateTopicCliReturnsFalse(b, topic_name, parts, o) ==
    IF o = "list_fails" THEN Call(b, <<"list">>, "False")
    ELSE IF topic_name \in TopicNames(b) THEN Call(b, <<"list">>, "True")
    ELSE IF o = "request_fails" THEN Call(b, <<"list", "create">>, "False")
    ELSE Call(b \cup {Topic(topic_name, parts)}, <<"list", "create">>, "True")

\* KafkaCliRunner._create_topic_cli: kafka-topics --list, then --create; a
\* CalledProcessError of either becomes a RuntimeError
create_topic_cli(b, topic_name, parts, o) ==
    IF o = "list_fails" THEN Call(b, <<"list">>, "raised")
    ELSE IF topic_name \in TopicNames(b) THEN Call(b, <<"list">>, "True")
    ELSE IF o = "request_fails" THEN Call(b, <<"list", "create">>, "raised")
    ELSE Call(b \cup {Topic(topic_name, parts)}, <<"list", "create">>, "True")

\* utils.topic.delete_topic: admin.list_topics is outside the try; only the
\* failure of the deletion itself is caught
delete_topic(b, topic_name, o) ==
    IF o = "list_fails" THEN Call(b, <<"list">>, "raised")
    ELSE IF topic_name \notin TopicNames(b) THEN Call(b, <<"list">>, "True")
    ELSE IF o = "request_fails" THEN Call(b, <<"list", "delete">>, "False")
    ELSE Call({tpc \in b : tpc.name # topic_name}, <<"list", "delete">>, "True")

\* KafkaCliRunner._delete_topic_cli: kafka-topics --delete with check=True; a
\* non-zero exit (no broker, no such topic, refused) is caught and gives False
delete_topic_cli(b, topic_name, o) ==
    IF o = "ok" /\ topic_name \in TopicNames(b)
      THEN Call({tpc \in b : tpc.name # topic_name}, <<"delete">>, "True")
      ELSE Call(b, <<"delete">>, "False")

\* ------------------------------------------------------------------ inputs
ProducerCounts(n) ==
    {f \in [1..n -> 1..MaxProducers] : SumSeq(f) <= MaxWorkers}

ScenarioLists(lo, hi) ==
    UNION {{[i \in 1..n |-> KafkaScenario(i, f[i])] : f \in ProducerCounts(n)}
           : n \in lo..hi}

Idle == [st |-> "idle", m |-> ZeroMetrics]

NoWorkers == [j \in 1..MaxProducers |-> Idle]

\* the topics of the broker when the command starts: none, or a topic with the
\* name of the first scenario's topic, created by someone else with 1 partition
InitialTopics == {{}, {Topic(1, 1)}}

PipeInit ==
    /\ command \in Commands
    /\ keep_topics \in BOOLEAN
    /\ scenarios \in (IF IsSingle(command) THEN ScenarioLists(1, 1)
                      ELSE ScenarioLists(0, MaxScenarios))
    /\ pc = "cmd_start"
    /\ idx = 0
    /\ topics \in InitialTopics
    /\ topic_log = <<>>
    /\ worker = NoWorkers
    /\ submitted = 0
    /\ launch_log = <<>>
    /\ fi = 1
    /\ metrics = <<>>
    /\ producer_errors = 0
    /\ results = <<>>
    /\ summary = <<>>
    /\ results_csv = <<>>
    /\ report = <<>>
    /\ sleeps = <<>>
    /\ error = "none"
    /\ exit_status = 0

scenario == scenarios[idx]

\* _generate_html_report: the report shows the data rows of summary.csv
GenerateHtmlReport(rep) == Append(rep, Len(summary) - 1)

\* ------------------------------------------------------------------ commands
\* The command constructs its runner (which parses the config) and calls it.
CmdStart(init_ok) ==
    /\ pc = "cmd_start"
    /\ IF ~init_ok
         THEN /\ error' = "InitError"
              /\ pc' = "cmd_exit"
              /\ idx' = idx
         ELSE /\ error' = error
              /\ IF IsSingle(command)
                   THEN pc' = "create_topic" /\ idx' = 1
                   ELSE pc' = "rs_header" /\ idx' = idx
    /\ UNCHANGED <<command, keep_topics, scenarios, topics, topic_log, worker,
                   submitted, launch_log, fi, metrics, producer_errors, results,
                   summary, results_csv, report, sleeps, exit_status>>
    /\ UNCHANGED nonPipeVars

CmdExit ==
    /\ pc = "cmd_exit"
    /\ exit_status' = ExitStatus(command, error, results)
    /\ pc' = "exited"
    /\ UNCHANGED <<command, keep_topics, scenarios, idx, topics, topic_log, worker,
                   submitted, launch_log, fi, metrics, producer_errors, results,
                   summary, results_csv, report, sleeps, error>>
    /\ UNCHANGED nonPipeVars

\* ------------------------------------------------------------------ run_scenarios
HeaderRow == [row |-> "header"]

\* f"{x:.2f}": the value in hundredths, rounded to nearest
Fmt2(x) == (200 * x.num + x.den) \div (2 * x.den)

Whole(n) == [num |-> n, den |-> 1]

SummaryRow(sc, r) ==
    [row |-> "data", scenario |-> sc.name, message_size |-> sc.msg_size,
     throughput_limit |-> sc.throughput, duration |-> sc.duration,
     producers |-> sc.producers,
     total_throughput |-> Fmt2(Whole(r.total_throughput)),
     avg_latency |-> Fmt2(r.avg_latency),
     max_latency |-> Fmt2(Whole(r.max_latency))]

\* open(summary_path, "w") and the header row; the write is outside every try
\* block, its exception leaves run_scenarios
RsHeader(write_ok) ==
    /\ pc = "rs_header"
    /\ IF write_ok
         THEN /\ summary' = <<HeaderRow>>
              /\ pc' = "rs_loop"
              /\ error' = error
         ELSE /\ summary' = summary
              /\ pc' = "cmd_exit"
              /\ error' = "ReportWriteError"
    /\ UNCHANGED <<command, keep_topics, scenarios, idx, topics, topic_log, worker,
                   submitted, launch_log, fi, metrics, producer_errors, results,
                   results_csv, report, sleeps, exit_status>>
    /\ UNCHANGED nonPipeVars

\* for scenario in scenarios: the next iteration, or the end of the loop with the
\* final report and the return of the results; the final report is written
\* outside every try block, its exception leaves run_scenarios
RsLoop(report_ok) ==
    /\ pc = "rs_loop"
    /\ IF idx < Len(scenarios)
         THEN /\ report_ok
              /\ idx' = idx + 1
              /\ pc' = "create_topic"
              /\ UNCHANGED <<report, error>>
         ELSE /\ idx' = idx
              /\ pc' = "cmd_exit"
              /\ report' = IF report_ok THEN GenerateHtmlReport(report) ELSE report
              /\ error' = IF report_ok THEN error ELSE "ReportWriteError"
    /\ UNCHANGED <<command, keep_topics, scenarios, topics, topic_log, worker,
                   submitted, launch_log, fi, metrics, producer_errors, results,
                   summary, results_csv, sleeps, exit_status>>
    /\ UNCHANGED nonPipeVars

\* An exception leaves run_scenario. KafkaCliRunner.run_scenarios catches it,
\* generates the report and re-raises; ScenarioRunner.run_scenarios has no handler;
\* a run-single command calls run_scenario directly.
ReportOnRaise ==
    IF ~IsSingle(command) /\ Backend(command) = "cli"
      THEN GenerateHtmlReport(report) ELSE report

\* ------------------------------------------------------------------ run_scenario
\* the partition count without the floor of 3
MutPartitionsNoFloor(sc) == sc.producers * 2

\* "Calculate number of partitions (at least 3)"
partitions(sc) == Max2(3, sc.producers * 2)

\* the entry of topic_log for a call that run_scenario makes
LogEntry(op, sc, parts, c) ==
    [op |-> op, topic |-> sc.name, partitions |-> parts,
     requests |-> c.requests, result |-> c.result]

\* create_topic / _create_topic_cli before the try block, then the scenario
\* directory; the returned value is not looked at, an exception propagates out of
\* run_scenario
CreateTopic(o) ==
    /\ pc = "create_topic"
    /\ LET c == IF Backend(command) = "cli"
                  THEN create_topic_cli(topics, scenario.name, partitions(scenario), o)
                  ELSE create_topic(topics, scenario.name, partitions(scenario), o)
       IN /\ topics' = c.broker
          /\ topic_log' = Append(topic_log,
                                 LogEntry("create", scenario, partitions(scenario), c))
          /\ IF c.result # "raised"
               THEN /\ pc' = "submit"
                    /\ UNCHANGED <<error, report>>
               ELSE /\ error' = "TopicCreationError"
                    /\ report' = ReportOnRaise
                    /\ pc' = "cmd_exit"
    /\ worker' = NoWorkers
    /\ submitted' = 0
    /\ fi' = 1
    /\ metrics' = <<>>
    /\ producer_errors' = 0
    /\ UNCHANGED <<command, keep_topics, scenarios, idx, launch_log, results,
                   summary, results_csv, sleeps, exit_status>>
    /\ UNCHANGED nonPipeVars

\* ------------------------------------------------------------------ _run_timed_producers
\* executor.submit of the next worker; the pool has one thread per producer, so the
\* worker starts at once
Submit ==
    /\ pc = "submit"
    /\ submitted < scenario.producers
    /\ worker' = [worker EXCEPT ![submitted + 1].st = "running"]
    /\ submitted' = submitted + 1
    /\ launch_log' = Append(launch_log, idx)
    /\ pc' = IF submitted + 1 = scenario.producers THEN "collect" ELSE "submit"
    /\ UNCHANGED <<command, keep_topics, scenarios, idx, topics, topic_log, fi,
                   metrics, producer_errors, results, summary, results_csv, report,
                   sleeps, error, exit_status>>
    /\ UNCHANGED nonPipeVars

\* what a worker can end with: an exception, no records, or records
Outcomes(j) ==
    {[st |-> "raised", m |-> ZeroMetrics],
     [st |-> "returned", m |-> ZeroMetrics],
     [st |-> "returned", m |-> OkMetrics(j)]}

\* worker j ends (_run_producer_perf_test / _run_timed_producer returns or raises)
WorkerFinish(j, out) ==
    /\ worker[j].st = "running"
    /\ worker' = [worker EXCEPT ![j] = out]
    /\ UNCHANGED <<command, keep_topics, scenarios, pc, idx, topics, topic_log,
                   submitted, launch_log, fi, metrics, producer_errors, results,
                   summary, results_csv, report, sleeps, error, exit_status>>
    /\ UNCHANGED nonPipeVars

\* the body of "for future, output_file in producer_futures" for one future
CollectCli(f) ==
    IF f.st = "returned"
      THEN /\ metrics' = Append(metrics, f.m)
           /\ producer_errors' =
                 IF f.m.record_count = 0 THEN producer_errors + 1 ELSE producer_errors
      ELSE /\ metrics' = metrics
           /\ producer_errors' = producer_errors + 1

CollectPython(f) ==
    /\ metrics' = IF f.st = "returned" THEN Append(metrics, f.m) ELSE metrics
    /\ producer_errors' = producer_errors

\* the collection loop without the wait that future.result() is
MutCollectNoWait ==
    /\ pc = "collect"
    /\ fi <= scenario.producers
    /\ IF Backend(command) = "cli" THEN CollectCli(worker[fi])
                                   ELSE CollectPython(worker[fi])
    /\ fi' = fi + 1
    /\ pc' = IF fi = scenario.producers THEN "collected" ELSE "collect"
    /\ UNCHANGED <<command, keep_topics, scenarios, idx, topics, topic_log, worker,
                   submitted, launch_log, results, summary, results_csv, report,
                   sleeps, error, exit_status>>
    /\ UNCHANGED nonPipeVars

\* future.result() of the next future in submission order returns or raises
Collect ==
    /\ pc = "collect"
    /\ fi <= scenario.producers
    /\ worker[fi].st \in {"returned", "raised"}
    /\ IF Backend(command) = "cli" THEN CollectCli(worker[fi])
                                   ELSE CollectPython(worker[fi])
    /\ fi' = fi + 1
    /\ pc' = IF fi = scenario.producers THEN "collected" ELSE "collect"
    /\ UNCHANGED <<command, keep_topics, scenarios, idx, topics, topic_log, worker,
                   submitted, launch_log, results, summary, results_csv, report,
                   sleeps, error, exit_status>>
    /\ UNCHANGED nonPipeVars

\* "if producer_errors:" of KafkaCliRunner._run_timed_producers; the Python
\* orchestrator has no such check
OrchestratorRaises ==
    IF Backend(command) = "cli" /\ producer_errors > 0
      THEN IF metrics = <<>> THEN "AllProducersFailed"
           ELSE IF Len(metrics) < scenario.producers THEN "SomeProducersFailed"
           ELSE "none"
      ELSE "none"

\* "if not self.keep_topics: delete_topic(...)": the call that run_scenario makes
DeleteCall(o) ==
    IF Backend(command) = "cli" THEN delete_topic_cli(topics, scenario.name, o)
                                ELSE delete_topic(topics, scenario.name, o)

DeleteTopic(o) == IF keep_topics THEN topics ELSE DeleteCall(o).broker

\* the deletion without "if not self.keep_topics"
MutDeleteLogAlways(o) ==
    Append(topic_log, LogEntry("delete", scenario, 0, DeleteCall(o)))

DeleteLog(o) ==
    IF keep_topics THEN topic_log
    ELSE Append(topic_log, LogEntry("delete", scenario, 0, DeleteCall(o)))

\* the deletion call raises, out of the finally clause or the except clause
DeleteRaises(o) == ~keep_topics /\ DeleteCall(o).result = "raised"

\* _run_timed_producers returns its list, or raises; on an exception run_scenario
\* deletes the topic and the exception propagates
OrchestratorEnd(o) ==
    /\ pc = "collected"
    /\ IF OrchestratorRaises = "none"
         THEN /\ o = "ok"
              /\ pc' = "aggregate"
              /\ UNCHANGED <<topics, topic_log, error, report>>
         ELSE /\ keep_topics => o = "ok"
              /\ topics' = DeleteTopic(o)
              /\ topic_log' = DeleteLog(o)
              /\ error' = IF DeleteRaises(o) THEN "TopicDeletionError"
                          ELSE OrchestratorRaises
              /\ report' = ReportOnRaise
              /\ pc' = "cmd_exit"
    /\ UNCHANGED <<command, keep_topics, scenarios, idx, worker, submitted,
                   launch_log, fi, metrics, producer_errors, results, summary,
                   results_csv, sleeps, exit_status>>
    /\ UNCHANGED nonPipeVars

\* ------------------------------------------------------------------ aggregation
throughputs(pm) == [i \in 1..Len(pm) |-> pm[i].throughput]
avg_latencies(pm) == [i \in 1..Len(pm) |-> pm[i].avg_latency]
max_latencies(pm) == [i \in 1..Len(pm) |-> pm[i].max_latency]
record_counts(pm) == [i \in 1..Len(pm) |-> pm[i].record_count]

\* sum(m.avg_latency * m.record_count) / sum(m.record_count): what the code does
\* NOT compute
MutWeightedMean(pm) ==
    [num |-> SumSeq([i \in 1..Len(pm) |-> pm[i].avg_latency * pm[i].record_count]),
     den |-> Max2(1, SumSeq(record_counts(pm)))]

\* sum(m.avg_latency for m in producer_metrics) / len(producer_metrics)
MeanLatency(pm) == [num |-> SumSeq(avg_latencies(pm)), den |-> Len(pm)]

\* "Calculate aggregated metrics" of KafkaCliRunner.run_scenario
AggregateCli(sc, pm) ==
    ScenarioResult(sc, pm, SumSeq(throughputs(pm)), MeanLatency(pm),
                   MaxSeq(max_latencies(pm)))

\* the same of ScenarioRunner.run_scenario, which guards the empty list
AggregatePython(sc, pm) ==
    ScenarioResult(sc, pm, SumSeq(throughputs(pm)),
                   IF pm # <<>> THEN MeanLatency(pm) ELSE Whole(0),
                   IF pm # <<>> THEN MaxSeq(max_latencies(pm)) ELSE 0)

\* _save_scenario_results: one row per element of producer_metrics, labelled with
\* its position, and the TOTAL row
SaveScenarioResults(r) ==
    [scenario |-> r.scenario.name,
     rows |-> [i \in 1..Len(r.producer_metrics) |->
                 [producer |-> i, m |-> r.producer_metrics[i]]],
     total |-> [total_throughput |-> r.total_throughput,
                avg_latency |-> r.avg_latency, max_latency |-> r.max_latency]]

\* The rest of run_scenario after the orchestrator returned: aggregation, the
\* result, results.csv, topic deletion; then the caller takes the result, unless
\* the deletion raised. _save_scenario_results has no handler of its own: when
\* the write fails (~save_ok) the except clause (CLI) or the finally clause
\* (Python) of run_scenario deletes the topic and the exception propagates.
Aggregate(o, save_ok) ==
    /\ pc = "aggregate"
    /\ keep_topics => o = "ok"
    /\ LET r == IF Backend(command) = "cli" THEN AggregateCli(scenario, metrics)
                ELSE AggregatePython(scenario, metrics)
       IN /\ results_csv' = IF save_ok THEN Append(results_csv, SaveScenarioResults(r))
                            ELSE results_csv
          /\ results' = IF DeleteRaises(o) \/ ~save_ok THEN results
                        ELSE Append(results, r)
    /\ topics' = DeleteTopic(o)
    /\ topic_log' = DeleteLog(o)
    /\ IF DeleteRaises(o) \/ ~save_ok
         THEN /\ error' = IF DeleteRaises(o) THEN "TopicDeletionError"
                          ELSE "ReportWriteError"
              /\ report' = ReportOnRaise
              /\ pc' = "cmd_exit"
         ELSE /\ pc' = IF IsSingle(command) THEN "cmd_exit" ELSE "rs_check"
              /\ UNCHANGED <<error, report>>
    /\ UNCHANGED <<command, keep_topics, scenarios, idx, worker, submitted,
                   launch_log, fi, metrics, producer_errors, summary, sleeps,
                   exit_status>>
    /\ UNCHANGED nonPipeVars

\* run_scenarios without the check of result.success
MutRsCheckNoSuccessCheck(write_ok) ==
    /\ pc = "rs_check"
    /\ IF write_ok
         THEN /\ summary' = Append(summary, SummaryRow(scenario, results[Len(results)]))
              /\ pc' = "rs_sleep"
              /\ UNCHANGED <<report, error>>
         ELSE /\ summary' = summary
              /\ report' = ReportOnRaise
              /\ error' = "ReportWriteError"
              /\ pc' = "cmd_exit"
    /\ UNCHANGED <<command, keep_topics, scenarios, idx, topics, topic_log, worker,
                   submitted, launch_log, fi, metrics, producer_errors, results,
                   results_csv, sleeps, exit_status>>
    /\ UNCHANGED nonPipeVars

\* run_scenarios after results.append(result): KafkaCliRunner checks
\* result.success, reports and raises (its own handler reports again);
\* both runners otherwise append the summary row. When that write fails
\* (~write_ok) the exception leaves run_scenarios, through the handler of
\* KafkaCliRunner that generates the report.
RsCheck(write_ok) ==
    /\ pc = "rs_check"
    /\ LET result == results[Len(results)]
       IN IF Backend(command) = "cli" /\ ~success(result)
            THEN /\ write_ok
                 /\ report' = GenerateHtmlReport(GenerateHtmlReport(report))
                 /\ error' = "ScenarioFailure"
                 /\ summary' = summary
                 /\ pc' = "cmd_exit"
            ELSE IF write_ok
            THEN /\ summary' = Append(summary, SummaryRow(scenario, result))
                 /\ pc' = "rs_sleep"
                 /\ UNCHANGED <<report, error>>
            ELSE /\ summary' = summary
                 /\ report' = ReportOnRaise
                 /\ error' = "ReportWriteError"
                 /\ pc' = "cmd_exit"
    /\ UNCHANGED <<command, keep_topics, scenarios, idx, topics, topic_log, worker,
                   submitted, launch_log, fi, metrics, producer_errors, results,
                   results_csv, sleeps, exit_status>>
    /\ UNCHANGED nonPipeVars

\* time.sleep(15) at the end of the loop body
RsSleep ==
    /\ pc = "rs_sleep"
    /\ sleeps' = Append(sleeps, idx)
    /\ pc' = "rs_loop"
    /\ UNCHANGED <<command, keep_topics, scenarios, idx, topics, topic_log, worker,
                   submitted, launch_log, fi, metrics, producer_errors, results,
                   summary, results_csv, report, error, exit_status>>
    /\ UNCHANGED nonPipeVars

\* ------------------------------------------------------------------ core/models.py
\* ProducerMetrics values a ScenarioResult can be built from; the last one has
\* records although its throughput field is 0
MetricsPool ==
    {ZeroMetrics, OkMetrics(1), OkMetrics(2), ProducerMetrics(0, 0, 0, 6000)}

MetricsLists ==
    UNION {[1..n -> MetricsPool] : n \in 0..MaxProducers}

ModelsInit ==
    /\ m_pc = "input"
    /\ m_input \in [pm : MetricsLists, tt : {0, 220}, al : {Whole(0), Whole(11)},
                    ml : {0, 60}]
    /\ m_result = ScenarioResult(KafkaScenario(1, 1), <<>>, 0, Whole(0), 0)
    /\ m_success = FALSE

\* ScenarioResult(scenario=..., producer_metrics=..., total_throughput=..., ...)
ConstructResult ==
    /\ m_pc = "input"
    /\ m_result' = ScenarioResult(KafkaScenario(1, Max2(1, Len(m_input.pm))),
                                  m_input.pm, m_input.tt, m_input.al, m_input.ml)
    /\ m_pc' = "constructed"
    /\ UNCHANGED <<m_input, m_success>>
    /\ UNCHANGED nonModelsVars

\* result.success
ReadSuccess ==
    /\ m_pc = "constructed"
    /\ m_success' = success(m_result)
    /\ m_pc' = "evaluated"
    /\ UNCHANGED <<m_input, m_result>>
    /\ UNCHANGED nonModelsVars

\* ------------------------------------------------------------------ _run_timed_producer
batch_size == 100

PyThroughputs == {-1, 10, 100, 1000}

\* time one produce call takes in a batch, in milliseconds
SendCosts == {0, 1, 20}

\* time producer.flush() blocks while the outstanding delivery reports arrive
FlushTimes == {0, 10, 2000}

NoMetrics == [throughput |-> Whole(0), duration |-> 0, record_count |-> 0]

PyInit ==
    /\ py_pc = "construct"
    /\ py_throughput \in PyThroughputs
    /\ py_duration \in 1..MaxDuration
    /\ py_now \in {0, 250}
    /\ py_start_time = 0
    /\ py_end_time = 0
    /\ py_batch_start = 0
    /\ py_message_count = 0
    /\ py_batch_count = 0
    /\ py_first_send = 0
    /\ py_last_send = 0
    /\ py_slept = 0
    /\ py_delivery_failed = 0
    /\ py_send_error = FALSE
    /\ py_instant = TRUE
    /\ py_metrics = NoMetrics

PyIdle ==
    /\ py_pc = "returned"
    /\ py_throughput = -1
    /\ py_duration = 1
    /\ py_now = 0
    /\ py_start_time = 0
    /\ py_end_time = 0
    /\ py_batch_start = 0
    /\ py_message_count = 0
    /\ py_batch_count = 0
    /\ py_first_send = 0
    /\ py_last_send = 0
    /\ py_slept = 0
    /\ py_delivery_failed = 0
    /\ py_send_error = FALSE
    /\ py_instant = TRUE
    /\ py_metrics = NoMetrics

throttle == py_throughput > 0

\* the expected time with a period of 2 / throughput
MutExpectedTimeDoublePeriod(n) == (2 * n * 1000) \div py_throughput

\* batch_count * throttle_period, in milliseconds
expected_time(n) == (n * 1000) \div py_throughput

\* Producer(config), start_time, end_time, the counters, batch_start
PyConstruct(ok) ==
    /\ py_pc = "construct"
    /\ IF ok
         THEN /\ py_pc' = "loop"
              /\ py_start_time' = py_now
              /\ py_end_time' = py_now + py_duration * 1000
              /\ py_batch_start' = py_now
         ELSE /\ py_pc' = "raised"
              /\ UNCHANGED <<py_start_time, py_end_time, py_batch_start>>
    /\ py_message_count' = 0
    /\ UNCHANGED <<py_throughput, py_duration, py_now, py_batch_count,
                   py_first_send, py_last_send, py_slept, py_metrics>>
    /\ UNCHANGED <<py_delivery_failed, py_send_error, py_instant>>
    /\ UNCHANGED nonPyVars

\* the number of passes of "for _ in range(batch_size)" that find
\* time.time() < end_time when each produce call takes c
SendsBeforeDeadline(c) ==
    IF c = 0 THEN batch_size
    ELSE LET left == (py_end_time - py_now + c - 1) \div c
         IN IF left < batch_size THEN left ELSE batch_size

\* the delivery reports of a batch that carry an error: none, one, or all
DeliveryFailures == {0, 1, batch_size}

\* One pass of the while loop up to producer.poll(0): the batch of produce calls;
\* message_count counts each call that returns. Of the messages sent, bad get a
\* delivery report with an error (delivery_callback prints it).
\* (Sends that take no time are possible only when the throttle spaces batches.)
PyBatch(c, bad) ==
    /\ py_pc = "loop"
    /\ py_now < py_end_time
    /\ c = 0 => throttle
    /\ LET n == SendsBeforeDeadline(c)
       IN /\ py_batch_count' = n
          /\ py_message_count' = py_message_count + n
          /\ py_delivery_failed' = py_delivery_failed + (IF bad > n THEN n ELSE bad)
          /\ py_first_send' = py_now
          /\ py_last_send' = py_now + (n - 1) * c
          /\ py_now' = py_now + n * c
    /\ py_pc' = "throttle"
    /\ UNCHANGED <<py_throughput, py_duration, py_start_time, py_end_time,
                   py_batch_start, py_slept, py_metrics, py_send_error>>
    /\ py_instant' = (py_instant /\ c = 0)
    /\ UNCHANGED nonPyVars

\* the throttle without "Reset batch start time"
MutThrottleNoReset ==
    /\ py_pc = "throttle"
    /\ IF throttle /\ py_batch_count > 0
         THEN LET batch_elapsed == py_now - py_batch_start
                  wait == expected_time(py_batch_count) - batch_elapsed
              IN /\ py_slept' = IF wait > 0 THEN wait ELSE 0
                 /\ py_now' = IF wait > 0 THEN py_now + wait ELSE py_now
                 /\ py_batch_start' = py_batch_start
         ELSE UNCHANGED <<py_slept, py_now, py_batch_start>>
    /\ py_pc' = "loop"
    /\ UNCHANGED <<py_throughput, py_duration, py_start_time, py_end_time,
                   py_message_count, py_batch_count, py_first_send, py_last_send,
                   py_metrics>>
    /\ UNCHANGED <<py_delivery_failed, py_send_error, py_instant>>
    /\ UNCHANGED nonPyVars

\* "Throttle if needed": the sleep and the reset of batch_start
PyThrottle ==
    /\ py_pc = "throttle"
    /\ IF throttle /\ py_batch_count > 0
         THEN LET batch_elapsed == py_now - py_batch_start
                  wait == expected_time(py_batch_count) - batch_elapsed
              IN /\ py_slept' = IF wait > 0 THEN wait ELSE 0
                 /\ py_now' = IF wait > 0 THEN py_now + wait ELSE py_now
                 /\ py_batch_start' = py_now'
         ELSE UNCHANGED <<py_slept, py_now, py_batch_start>>
    /\ py_pc' = "loop"
    /\ UNCHANGED <<py_throughput, py_duration, py_start_time, py_end_time,
                   py_message_count, py_batch_count, py_first_send, py_last_send,
                   py_metrics>>
    /\ UNCHANGED <<py_delivery_failed, py_send_error, py_instant>>
    /\ UNCHANGED nonPyVars

\* producer.produce raises (a full queue, a closed client): the except clause
\* prints and the loop is over
PyProduceRaises ==
    /\ py_pc = "loop"
    /\ py_now < py_end_time
    /\ py_pc' = "flush"
    /\ py_send_error' = TRUE
    /\ py_instant' = py_instant
    /\ UNCHANGED <<py_throughput, py_duration, py_now, py_start_time, py_end_time,
                   py_batch_start, py_message_count, py_batch_count, py_first_send,
                   py_last_send, py_slept, py_metrics>>
    /\ UNCHANGED py_delivery_failed
    /\ UNCHANGED nonPyVars

\* "while time.time() < end_time" is false
PyLoopExit ==
    /\ py_pc = "loop"
    /\ py_now >= py_end_time
    /\ py_pc' = "flush"
    /\ UNCHANGED <<py_throughput, py_duration, py_now, py_start_time, py_end_time,
                   py_batch_start, py_message_count, py_batch_count, py_first_send,
                   py_last_send, py_slept, py_metrics>>
    /\ UNCHANGED <<py_delivery_failed, py_send_error, py_instant>>
    /\ UNCHANGED nonPyVars

\* finally: producer.flush()
PyFlush(f) ==
    /\ py_pc = "flush"
    /\ py_now' = py_now + f
    /\ py_pc' = "metrics"
    /\ UNCHANGED <<py_throughput, py_duration, py_start_time, py_end_time,
                   py_batch_start, py_message_count, py_batch_count, py_first_send,
                   py_last_send, py_slept, py_metrics>>
    /\ py_instant' = (py_instant /\ f = 0)
    /\ UNCHANGED <<py_delivery_failed, py_send_error>>
    /\ UNCHANGED nonPyVars

\* "Calculate final metrics" and the return of the ProducerMetrics
PyReturn ==
    /\ py_pc = "metrics"
    /\ LET actual_duration == py_now - py_start_time
       IN py_metrics' =
            [throughput |-> IF actual_duration > 0
                              THEN [num |-> py_message_count * 1000,
                                    den |-> actual_duration]
                              ELSE Whole(0),
             duration |-> actual_duration,
             record_count |-> py_message_count]
    /\ py_pc' = "returned"
    /\ UNCHANGED <<py_throughput, py_duration, py_now, py_start_time, py_end_time,
                   py_batch_start, py_message_count, py_batch_count, py_first_send,
                   py_last_send, py_slept>>
    /\ UNCHANGED <<py_delivery_failed, py_send_error, py_instant>>
    /\ UNCHANGED nonPyVars

\* ------------------------------------------------------------------ _run_producer_perf_test
MinMessages == 1000
MaxMessages == 100000000
DefaultMessagesPerSec == 1000
SafetyFactor == 2
TerminateTimeout == 5

CliThroughputs == {-1, 100, 100000000}

\* records per second the broker lets one perf-test process send
ChildSpeeds == {500, 5000, 100000000}

\* "Calculate number of messages" of KafkaCliRunner._run_timed_producers
num_messages(tp, d) ==
    LET messages_per_sec == IF tp > 0 THEN tp ELSE DefaultMessagesPerSec
        n == messages_per_sec * d * SafetyFactor
    IN IF n < MinMessages THEN MinMessages
       ELSE IF n > MaxMessages THEN MaxMessages ELSE n

\* the child sends at its --throughput if the broker is fast enough
ChildRates(tp) ==
    {IF tp > 0 /\ tp < sp THEN tp ELSE sp : sp \in ChildSpeeds}

CwInit ==
    /\ cw_pc = "start"
    /\ cw_throughput \in CliThroughputs
    /\ cw_duration \in 1..MaxDuration
    /\ cw_num_messages = 0
    /\ cw_now \in {0, 3}
    /\ cw_start_time = 0
    /\ cw_time_elapsed = 0
    /\ cw_signals = <<>>
    /\ child = "none"
    /\ child_rate = 0
    /\ child_sent = 0
    /\ child_exit = "none"
    /\ child_exit_time = 0
    /\ child_last_send = 0
    /\ cw_metrics = 0

CwIdle ==
    /\ cw_pc = "returned"
    /\ cw_throughput = -1
    /\ cw_duration = 1
    /\ cw_num_messages = 0
    /\ cw_now = 0
    /\ cw_start_time = 0
    /\ cw_time_elapsed = 0
    /\ cw_signals = <<>>
    /\ child = "none"
    /\ child_rate = 0
    /\ child_sent = 0
    /\ child_exit = "none"
    /\ child_exit_time = 0
    /\ child_last_send = 0
    /\ cw_metrics = 0

\* the orchestrator computes num_messages; the worker builds its command and
\* reads start_time
CwStart ==
    /\ cw_pc = "start"
    /\ cw_num_messages' = num_messages(cw_throughput, cw_duration)
    /\ cw_start_time' = cw_now
    /\ cw_pc' = "popen"
    /\ UNCHANGED <<cw_throughput, cw_duration, cw_now, cw_time_elapsed, cw_signals,
                   child, child_rate, child_sent, child_exit, child_exit_time,
                   child_last_send, cw_metrics>>
    /\ UNCHANGED nonCwVars

\* open(output_file) and subprocess.Popen; an exception is caught and printed
CwPopen(ok, rate) ==
    /\ cw_pc = "popen"
    /\ IF ok
         THEN /\ rate \in ChildRates(cw_throughput)
              /\ child' = "running"
              /\ child_rate' = rate
              /\ cw_pc' = "poll"
         ELSE /\ rate = 0
              /\ cw_pc' = "parse"
              /\ UNCHANGED <<child, child_rate>>
    /\ cw_time_elapsed' = 0
    /\ UNCHANGED <<cw_throughput, cw_duration, cw_num_messages, cw_now,
                   cw_start_time, cw_signals, child_sent, child_exit,
                   child_exit_time, child_last_send, cw_metrics>>
    /\ UNCHANGED nonCwVars

\* what the child does in the next dt seconds: it sends at its rate and exits when
\* it has sent num-records (or when it crashes)
ChildRuns(dt, crash) ==
    LET sent == IF child_sent + child_rate * dt >= cw_num_messages
                  THEN cw_num_messages ELSE child_sent + child_rate * dt
    IN /\ child_sent' = sent
       /\ child_last_send' = cw_now
       /\ IF sent = cw_num_messages
            THEN child' = "exited" /\ child_exit' = "quota"
                 /\ child_exit_time' = cw_now + dt
            ELSE IF crash
            THEN child' = "exited" /\ child_exit' = "crash"
                 /\ child_exit_time' = cw_now + dt
            ELSE UNCHANGED <<child, child_exit, child_exit_time>>

\* one pass of "while time_elapsed < duration and process.poll() is None"
CwPoll(crash) ==
    /\ cw_pc = "poll"
    /\ cw_time_elapsed < cw_duration
    /\ child = "running"
    /\ ChildRuns(1, crash)
    /\ cw_now' = cw_now + 1
    /\ cw_time_elapsed' = cw_now' - cw_start_time
    /\ UNCHANGED <<cw_pc, cw_throughput, cw_duration, cw_num_messages,
                   cw_start_time, cw_signals, child_rate, cw_metrics>>
    /\ UNCHANGED nonCwVars

\* the end of the loop without "Kill if still running"
MutLoopExitNoTerminate ==
    /\ cw_pc = "poll"
    /\ ~(cw_time_elapsed < cw_duration /\ child = "running")
    /\ cw_signals' = cw_signals
    /\ cw_pc' = "parse"
    /\ UNCHANGED <<cw_throughput, cw_duration, cw_num_messages, cw_now,
                   cw_start_time, cw_time_elapsed, child, child_rate, child_sent,
                   child_exit, child_exit_time, child_last_send, cw_metrics>>
    /\ UNCHANGED nonCwVars

\* the loop ends; "Kill if still running": process.terminate()
CwLoopExit ==
    /\ cw_pc = "poll"
    /\ ~(cw_time_elapsed < cw_duration /\ child = "running")
    /\ IF child = "running"
         THEN cw_signals' = Append(cw_signals, "terminate") /\ cw_pc' = "wait"
         ELSE cw_signals' = cw_signals /\ cw_pc' = "parse"
    /\ UNCHANGED <<cw_throughput, cw_duration, cw_num_messages, cw_now,
                   cw_start_time, cw_time_elapsed, child, child_rate, child_sent,
                   child_exit, child_exit_time, child_last_send, cw_metrics>>
    /\ UNCHANGED nonCwVars

\* process.wait(timeout=5): the child exits on the signal, or goes on for the
\* whole timeout and is then killed
CwWait(responds) ==
    /\ cw_pc = "wait"
    /\ IF responds
         THEN /\ child' = "exited"
              /\ child_exit' = "terminated"
              /\ child_exit_time' = cw_now
              /\ UNCHANGED <<cw_now, cw_signals, child_sent, child_last_send>>
         ELSE /\ ChildRuns(TerminateTimeout, TRUE)
              /\ cw_now' = cw_now + TerminateTimeout
              /\ cw_signals' =
                    IF child_exit' = "quota" THEN cw_signals
                    ELSE Append(cw_signals, "kill")
    /\ cw_pc' = "parse"
    /\ UNCHANGED <<cw_throughput, cw_duration, cw_num_messages, cw_start_time,
                   cw_time_elapsed, child_rate, cw_metrics>>
    /\ UNCHANGED nonCwVars

\* _parse_producer_perf_output and the return of the ProducerMetrics
CwParse ==
    /\ cw_pc = "parse"
    /\ cw_metrics' = child_sent
    /\ cw_pc' = "returned"
    /\ UNCHANGED <<cw_throughput, cw_duration, cw_num_messages, cw_now,
                   cw_start_time, cw_time_elapsed, cw_signals, child, child_rate,
                   child_sent, child_exit, child_exit_time, child_last_send>>
    /\ UNCHANGED nonCwVars

\* ------------------------------------------------------------------ topic functions
\* create_topic, delete_topic, _create_topic_cli and _delete_topic_cli called
\* directly, in any order, against a broker that may already hold topics
TopicPool == {1, 2}

PartitionCounts == {3, 4}

Brokers ==
    {b \in SUBSET {Topic(n, p) : n \in TopicPool, p \in PartitionCounts} :
        \A x, y \in b : x.name = y.name => x = y}

Apis == {"admin", "cli"}

TopicInit ==
    /\ tb_broker \in Brokers
    /\ tb_calls = <<>>

TopicIdle ==
    /\ tb_broker = {}
    /\ tb_calls = <<>>

CallRecord(api, op, n, p, o, c) ==
    [api |-> api, op |-> op, topic |-> n, partitions |-> p, outcome |-> o,
     before |-> tb_broker, requests |-> c.requests, result |-> c.result,
     after |-> c.broker]

CallCreate(api, n, p, o) ==
    /\ Len(tb_calls) < MaxCalls
    /\ LET c == IF api = "cli" THEN create_topic_cli(tb_broker, n, p, o)
                ELSE create_topic(tb_broker, n, p, o)
       IN /\ tb_broker' = c.broker
          /\ tb_calls' = Append(tb_calls, CallRecord(api, "create", n, p, o, c))
    /\ UNCHANGED nonTopicVars

CallDelete(api, n, o) ==
    /\ Len(tb_calls) < MaxCalls
    /\ LET c == IF api = "cli" THEN delete_topic_cli(tb_broker, n, o)
                ELSE delete_topic(tb_broker, n, o)
       IN /\ tb_broker' = c.broker
          /\ tb_calls' = Append(tb_calls, CallRecord(api, "delete", n, 0, o, c))
    /\ UNCHANGED nonTopicVars

\* ------------------------------------------------------------------ strings
\* A string is the sequence of its characters.
Digits == <<"0", "1", "2", "3", "4", "5", "6", "7", "8", "9">>

IsDigit(c) == \E i \in 1..Len(Digits) : Digits[i] = c

DigitVal(c) == (CHOOSE i \in 1..Len(Digits) : Digits[i] = c) - 1

Contains(s, c) == \E i \in 1..Len(s) : s[i] = c

RECURSIVE LStrip(_)
LStrip(s) == IF s # <<>> /\ Head(s) = " " THEN LStrip(Tail(s)) ELSE s

RECURSIVE RStrip(_)
RStrip(s) ==
    IF s # <<>> /\ s[Len(s)] = " " THEN RStrip(SubSeq(s, 1, Len(s) - 1)) ELSE s

\* str.strip()
strip(s) == RStrip(LStrip(s))

\* str.split(sep): the pieces between the occurrences of sep
RECURSIVE split(_, _)
split(s, sep) ==
    IF ~Contains(s, sep) THEN <<s>>
    ELSE LET i == CHOOSE k \in 1..Len(s) :
                      s[k] = sep /\ \A j \in 1..(k - 1) : s[j] # sep
         IN <<SubSeq(s, 1, i - 1)>> \o split(SubSeq(s, i + 1, Len(s)), sep)

RECURSIVE DigitsValue(_, _)
DigitsValue(s, acc) ==
    IF s = <<>> THEN acc ELSE DigitsValue(Tail(s), acc * 10 + DigitVal(Head(s)))

\* the digits of an int literal after its sign
Unsigned(x) ==
    LET s == strip(x)
    IN IF s # <<>> /\ Head(s) \in {"-", "+"} THEN Tail(s) ELSE s

\* int(x) does not raise ValueError
IsIntText(x) ==
    Unsigned(x) # <<>> /\ \A i \in 1..Len(Unsigned(x)) : IsDigit(Unsigned(x)[i])

\* int(x)
int(x) ==
    IF Head(strip(x)) = "-" THEN 0 - DigitsValue(Unsigned(x), 0)
    ELSE DigitsValue(Unsigned(x), 0)

\* ------------------------------------------------------------------ from_string
Raised(e) == [ok |-> FALSE, error |-> e]

Returned(v) == [ok |-> TRUE, value |-> v]

\* the comma-separated parts without the comment removed
MutPartsKeepComment(scenario_str) ==
    LET raw == split(strip(scenario_str), ",")
    IN [i \in 1..Len(raw) |-> strip(raw[i])]

\* the comma-separated parts without "strip each part"
MutPartsNoStrip(scenario_str) ==
    LET s == IF Contains(scenario_str, "#")
               THEN strip(split(scenario_str, "#")[1]) ELSE scenario_str
    IN split(strip(s), ",")

\* "Remove comments", "Split by comma and strip each part"
Parts(scenario_str) ==
    LET s == IF Contains(scenario_str, "#")
               THEN strip(split(scenario_str, "#")[1]) ELSE scenario_str
        raw == split(strip(s), ",")
    IN [i \in 1..Len(raw) |-> strip(raw[i])]

\* "Basic validation" and "Parse with defaults": int() raises ValueError too
ParseParts(parts) ==
    LET Present(i) == Len(parts) >= i /\ parts[i] # <<>>
        Bad(i) == Present(i) /\ ~IsIntText(parts[i])
    IN IF Len(parts) < 3 THEN Raised("ValueError")
       ELSE IF ~IsIntText(parts[2]) \/ Bad(3) \/ Bad(4) \/ Bad(5)
         THEN Raised("ValueError")
       ELSE Returned([name |-> parts[1],
                      msg_size |-> int(parts[2]),
                      throughput |-> IF Present(3) THEN int(parts[3]) ELSE -1,
                      duration |-> IF Present(4) THEN int(parts[4]) ELSE 60,
                      producers |-> IF Present(5) THEN int(parts[5]) ELSE 1])

\* KafkaScenario.from_string
from_string(scenario_str) == ParseParts(Parts(scenario_str))

\* The strings from_string is given: fields written as text, joined by commas,
\* with or without a comment and surrounding whitespace. A field is the text
\* written and the value meant by it.
NameTokens ==
    {[text |-> <<"a">>, kind |-> "name", val |-> <<"a">>],
     [text |-> <<" ", "b", "1", " ">>, kind |-> "name", val |-> <<"b", "1">>]}

NumberTokens ==
    {[text |-> <<>>, kind |-> "empty", val |-> 0],
     [text |-> <<"0">>, kind |-> "int", val |-> 0],
     [text |-> <<"-", "1">>, kind |-> "int", val |-> -1],
     [text |-> <<"6", "0">>, kind |-> "int", val |-> 60],
     [text |-> <<" ", "2", " ">>, kind |-> "int", val |-> 2],
     [text |-> <<"x">>, kind |-> "bad", val |-> 0]}

Comments == {<<>>, <<"#", "c">>, <<" ", "#", ",", "1", ",", "2">>}

FieldLists(n) ==
    {<<nm>> \o rest : nm \in NameTokens, rest \in [1..(n - 1) -> NumberTokens]}

RECURSIVE Join(_)
Join(fs) ==
    IF Len(fs) = 1 THEN fs[1].text
    ELSE fs[1].text \o <<",">> \o Join(Tail(fs))

Render(fs, cm, w) == w \o Join(fs) \o cm \o w

NoResult == Raised("none")

ParseInit ==
    /\ sp_pc = "input"
    /\ sp_fields \in UNION {FieldLists(n) : n \in 1..MaxFields}
    /\ sp_comment \in Comments
    /\ sp_wrap \in {<<>>, <<" ">>}
    /\ sp_line = Render(sp_fields, sp_comment, sp_wrap)
    /\ sp_result = NoResult

ParseIdle ==
    /\ sp_pc = "parsed"
    /\ sp_fields = <<>>
    /\ sp_comment = <<>>
    /\ sp_wrap = <<>>
    /\ sp_line = <<>>
    /\ sp_result = NoResult

\* KafkaScenario.from_string(scenario_str) returns or raises
FromString ==
    /\ sp_pc = "input"
    /\ sp_result' = from_string(sp_line)
    /\ sp_pc' = "parsed"
    /\ UNCHANGED <<sp_fields, sp_comment, sp_wrap, sp_line>>
    /\ UNCHANGED nonParseVars

\* ------------------------------------------------------------------ load_scenarios
\* The message printed for a line that does not parse: the parts it shows.
\* Only the CLI backend counts lines and prints the number.
ParseErrorMessage(line, line_number, numbered) ==
    [line |-> line, line_number |-> IF numbered THEN <<line_number>> ELSE <<>>]

\* the loop "for line in f" after the first n lines of the file
RECURSIVE LoadLines(_, _, _)
LoadLines(file, n, numbered) ==
    IF n = 0 THEN [scenarios |-> <<>>, reports |-> <<>>]
    ELSE LET prev == LoadLines(file, n - 1, numbered)
             line == strip(file[n])
             r == from_string(line)
         IN IF line = <<>> \/ Head(line) = "#" THEN prev
            ELSE IF r.ok THEN [prev EXCEPT !.scenarios = Append(@, r.value)]
            ELSE [prev EXCEPT !.reports =
                      Append(@, ParseErrorMessage(line, n, numbered))]

\* KafkaCliRunner.load_scenarios
cli_load_scenarios(file) == LoadLines(file, Len(file), TRUE)

\* ScenarioRunner.load_scenarios
python_load_scenarios(file) == LoadLines(file, Len(file), FALSE)

\* The lines of a scenario file: the text, what the line is, and the scenario
\* a scenario line stands for.
NoScenario ==
    [name |-> <<>>, msg_size |-> 0, throughput |-> 0, duration |-> 0,
     producers |-> 0]

LinePool ==
    {[text |-> <<"a", ",", "1", ",", "2">>, kind |-> "scenario",
      value |-> [name |-> <<"a">>, msg_size |-> 1, throughput |-> 2,
                 duration |-> 60, producers |-> 1]],
     [text |-> <<" ", "b", ",", "1", ",", "-", "1", ",", "2", ",", "2", " ", "#", "c">>,
      kind |-> "scenario",
      value |-> [name |-> <<"b">>, msg_size |-> 1, throughput |-> -1,
                 duration |-> 2, producers |-> 2]],
     [text |-> <<" ">>, kind |-> "blank", value |-> NoScenario],
     [text |-> <<"#", "a", ",", "1", ",", "2">>, kind |-> "comment",
      value |-> NoScenario],
     [text |-> <<"b", "a", "d">>, kind |-> "malformed", value |-> NoScenario],
     [text |-> <<"a", ",", "x", ",", "1", " ">>, kind |-> "malformed",
      value |-> NoScenario]}

LoadInit ==
    /\ ld_pc = "input"
    /\ ld_backend \in {"cli", "python"}
    /\ ld_file \in UNION {[1..n -> LinePool] : n \in 0..MaxLines}
    /\ ld_scenarios = <<>>
    /\ ld_reports = <<>>

LoadIdle ==
    /\ ld_pc = "loaded"
    /\ ld_backend = "cli"
    /\ ld_file = <<>>
    /\ ld_scenarios = <<>>
    /\ ld_reports = <<>>

\* runner.load_scenarios(scenario_file) returns
LoadScenarios ==
    /\ ld_pc = "input"
    /\ LET lines == [i \in 1..Len(ld_file) |-> ld_file[i].text]
           r == IF ld_backend = "cli" THEN cli_load_scenarios(lines)
                ELSE python_load_scenarios(lines)
       IN /\ ld_scenarios' = r.scenarios
          /\ ld_reports' = r.reports
    /\ ld_pc' = "loaded"
    /\ UNCHANGED <<ld_backend, ld_file>>
    /\ UNCHANGED nonLoadVars

\* ------------------------------------------------------------------ get_bootstrap_servers
CommonKeys == <<"bootstrap.servers", "bootstrap_servers", "bootstrapServers">>

BrokerListKeys == <<"broker.list", "metadata.broker.list">>

\* "for key in keys: if key in config": the first key of the list in the config
HasKey(keys, config) == \E i \in 1..Len(keys) : keys[i] \in DOMAIN config

FirstKey(keys, config) ==
    keys[CHOOSE i \in 1..Len(keys) :
             /\ keys[i] \in DOMAIN config
             /\ \A j \in 1..(i - 1) : keys[j] \notin DOMAIN config]

\* the two loops in the other order
MutBrokerListFirst(config) ==
    IF HasKey(BrokerListKeys, config)
      THEN Returned(config[FirstKey(BrokerListKeys, config)])
    ELSE IF HasKey(CommonKeys, config)
      THEN Returned(config[FirstKey(CommonKeys, config)])
    ELSE Raised("ValueError")

get_bootstrap_servers(config) ==
    IF HasKey(CommonKeys, config)
      THEN Returned(config[FirstKey(CommonKeys, config)])
    ELSE IF HasKey(BrokerListKeys, config)
      THEN Returned(config[FirstKey(BrokerListKeys, config)])
    ELSE Raised("ValueError")

\* the dictionaries given: any of the five keys and a key that is none of them
Configs ==
    LET keys == {"bootstrap.servers", "bootstrap_servers", "bootstrapServers",
                 "broker.list", "metadata.broker.list", "client.id"}
        values == {"localhost:9092", "broker:9093"}
    IN UNION {[K -> values] : K \in SUBSET keys}

ConfigInit ==
    /\ cf_pc = "input"
    /\ cf_input \in Configs
    /\ cf_config = cf_input
    /\ cf_result = NoResult

ConfigIdle ==
    /\ cf_pc = "done"
    /\ cf_input = <<>>
    /\ cf_config = <<>>
    /\ cf_result = NoResult

\* get_bootstrap_servers(config) returns or raises; it assigns nothing to config
GetBootstrapServers ==
    /\ cf_pc = "input"
    /\ cf_result' = get_bootstrap_servers(cf_config)
    /\ cf_pc' = "done"
    /\ UNCHANGED <<cf_input, cf_config>>
    /\ UNCHANGED nonConfigVars

\* ------------------------------------------------------------------ delivery callbacks
\* _run_timed_producer with every message followed from produce() to its
\* delivery callback; the clock is left out, the latency a callback computes
\* is an input.
Latencies == {1, 4}

NoDeliveryMetrics == [avg_latency |-> Whole(0), max_latency |-> 0, record_count |-> 0]

DeliveryInit ==
    /\ dl_pc = "loop"
    /\ dl_message_count = 0
    /\ dl_in_flight = 0
    /\ dl_latency_sum = 0
    /\ dl_max_latency = 0
    /\ dl_acked = <<>>
    /\ dl_failed = 0
    /\ dl_send_error = FALSE
    /\ dl_metrics = NoDeliveryMetrics

DeliveryIdle ==
    /\ dl_pc = "returned"
    /\ dl_message_count = 0
    /\ dl_in_flight = 0
    /\ dl_latency_sum = 0
    /\ dl_max_latency = 0
    /\ dl_acked = <<>>
    /\ dl_failed = 0
    /\ dl_send_error = FALSE
    /\ dl_metrics = NoDeliveryMetrics

\* producer.produce(...) returns: message_count += 1
DlProduce ==
    /\ dl_pc = "loop"
    /\ dl_message_count < MaxSends
    /\ dl_message_count' = dl_message_count + 1
    /\ dl_in_flight' = dl_in_flight + 1
    /\ UNCHANGED <<dl_pc, dl_latency_sum, dl_max_latency, dl_acked, dl_failed,
                   dl_send_error, dl_metrics>>
    /\ UNCHANGED nonDeliveryVars

\* producer.produce(...) raises: the except clause around the loop
DlProduceRaises ==
    /\ dl_pc = "loop"
    /\ dl_message_count < MaxSends
    /\ dl_send_error' = TRUE
    /\ dl_pc' = "flush"
    /\ UNCHANGED <<dl_message_count, dl_in_flight, dl_latency_sum, dl_max_latency,
                   dl_acked, dl_failed, dl_metrics>>
    /\ UNCHANGED nonDeliveryVars

\* delivery_callback(err, msg) for one message in flight
delivery_callback(err, latency_ms) ==
    /\ dl_in_flight > 0
    /\ dl_in_flight' = dl_in_flight - 1
    /\ IF err
         THEN /\ dl_failed' = dl_failed + 1
              /\ UNCHANGED <<dl_latency_sum, dl_max_latency, dl_acked>>
         ELSE /\ dl_latency_sum' = dl_latency_sum + latency_ms
              /\ dl_max_latency' = Max2(dl_max_latency, latency_ms)
              /\ dl_acked' = Append(dl_acked, latency_ms)
              /\ dl_failed' = dl_failed

\* producer.poll(0) in the loop serves the callback of a delivered message
DlPoll(err, latency_ms) ==
    /\ dl_pc = "loop"
    /\ delivery_callback(err, latency_ms)
    /\ UNCHANGED <<dl_pc, dl_message_count, dl_send_error, dl_metrics>>
    /\ UNCHANGED nonDeliveryVars

\* "while time.time() < end_time" is false
DlLoopExit ==
    /\ dl_pc = "loop"
    /\ dl_pc' = "flush"
    /\ UNCHANGED <<dl_message_count, dl_in_flight, dl_latency_sum, dl_max_latency,
                   dl_acked, dl_failed, dl_send_error, dl_metrics>>
    /\ UNCHANGED nonDeliveryVars

\* producer.flush() serves the callback of a message still in flight
DlFlushCallback(err, latency_ms) ==
    /\ dl_pc = "flush"
    /\ delivery_callback(err, latency_ms)
    /\ UNCHANGED <<dl_pc, dl_message_count, dl_send_error, dl_metrics>>
    /\ UNCHANGED nonDeliveryVars

\* a flush that returns at once, as producer.flush(0) would
MutFlushNoWait ==
    /\ dl_pc = "flush"
    /\ dl_pc' = "metrics"
    /\ UNCHANGED <<dl_message_count, dl_in_flight, dl_latency_sum, dl_max_latency,
                   dl_acked, dl_failed, dl_send_error, dl_metrics>>
    /\ UNCHANGED nonDeliveryVars

\* producer.flush() has no timeout: it returns when nothing is in flight
DlFlushReturn ==
    /\ dl_pc = "flush"
    /\ dl_in_flight = 0
    /\ dl_pc' = "metrics"
    /\ UNCHANGED <<dl_message_count, dl_in_flight, dl_latency_sum, dl_max_latency,
                   dl_acked, dl_failed, dl_send_error, dl_metrics>>
    /\ UNCHANGED nonDeliveryVars

\* "Calculate final metrics" and the return of the ProducerMetrics
DlReturn ==
    /\ dl_pc = "metrics"
    /\ dl_metrics' =
          [avg_latency |-> IF dl_message_count > 0
                             THEN [num |-> dl_latency_sum, den |-> dl_message_count]
                             ELSE Whole(0),
           max_latency |-> dl_max_latency,
           record_count |-> dl_message_count]
    /\ dl_pc' = "returned"
    /\ UNCHANGED <<dl_message_count, dl_in_flight, dl_latency_sum, dl_max_latency,
                   dl_acked, dl_failed, dl_send_error>>
    /\ UNCHANGED nonDeliveryVars

InputIdle == ParseIdle /\ LoadIdle /\ ConfigIdle /\ DeliveryIdle

\* ------------------------------------------------------------------ specifications
\* the state of a part of the program that a specification does not run
PipeIdle ==
    /\ command = "run"
    /\ keep_topics = FALSE
    /\ scenarios = <<>>
    /\ pc = "exited"
    /\ idx = 0
    /\ topics = {}
    /\ topic_log = <<>>
    /\ worker = NoWorkers
    /\ submitted = 0
    /\ launch_log = <<>>
    /\ fi = 1
    /\ metrics = <<>>
    /\ producer_errors = 0
    /\ results = <<>>
    /\ summary = <<>>
    /\ results_csv = <<>>
    /\ report = <<>>
    /\ sleeps = <<>>
    /\ error = "none"
    /\ exit_status = 0

ModelsIdle ==
    /\ m_pc = "evaluated"
    /\ m_input = [pm |-> <<>>, tt |-> 0, al |-> Whole(0), ml |-> 0]
    /\ m_result = ScenarioResult(KafkaScenario(1, 1), <<>>, 0, Whole(0), 0)
    /\ m_success = FALSE

\* the commands of cli.py with their pipelines, orchestrators and workers' outcomes
Init == PipeInit /\ ModelsIdle /\ PyIdle /\ CwIdle /\ TopicIdle /\ InputIdle

Next ==
    \/ \E init_ok \in BOOLEAN : CmdStart(init_ok)
    \/ \E write_ok \in BOOLEAN : RsHeader(write_ok)
    \/ \E report_ok \in BOOLEAN : RsLoop(report_ok)
    \/ \E o \in BrokerOutcomes : CreateTopic(o)
    \/ Submit
    \/ \E j \in 1..MaxProducers : \E out \in Outcomes(j) : WorkerFinish(j, out)
    \/ Collect
    \/ \E o \in BrokerOutcomes : OrchestratorEnd(o)
    \/ \E o \in BrokerOutcomes : \E save_ok \in BOOLEAN : Aggregate(o, save_ok)
    \/ \E write_ok \in BOOLEAN : RsCheck(write_ok)
    \/ RsSleep
    \/ CmdExit

Spec == Init /\ [][Next]_vars

\* the data model used directly, as the unit tests do
InitModels == ModelsInit /\ PipeIdle /\ PyIdle /\ CwIdle /\ TopicIdle /\ InputIdle

NextModels == ConstructResult \/ ReadSuccess

SpecModels == InitModels /\ [][NextModels]_vars

\* one worker of the Python backend against the clock
InitPyWorker == PyInit /\ PipeIdle /\ ModelsIdle /\ CwIdle /\ TopicIdle /\ InputIdle

NextPyWorker ==
    \/ \E ok \in BOOLEAN : PyConstruct(ok)
    \/ \E c \in SendCosts : \E bad \in DeliveryFailures : PyBatch(c, bad)
    \/ PyThrottle
    \/ PyProduceRaises
    \/ PyLoopExit
    \/ \E f \in FlushTimes : PyFlush(f)
    \/ PyReturn

SpecPyWorker == InitPyWorker /\ [][NextPyWorker]_vars

\* one worker of the CLI backend and its child process against the clock
InitCliWorker == CwInit /\ PipeIdle /\ ModelsIdle /\ PyIdle /\ TopicIdle /\ InputIdle

NextCliWorker ==
    \/ CwStart
    \/ \E ok \in BOOLEAN : \E rate \in ChildSpeeds \cup {0, 100} : CwPopen(ok, rate)
    \/ \E crash \in BOOLEAN : CwPoll(crash)
    \/ CwLoopExit
    \/ \E responds \in BOOLEAN : CwWait(responds)
    \/ CwParse

SpecCliWorker == InitCliWorker /\ [][NextCliWorker]_vars

\* the topic functions against a broker
InitTopic == TopicInit /\ PipeIdle /\ ModelsIdle /\ PyIdle /\ CwIdle /\ InputIdle

NextTopic ==
    \/ \E api \in Apis : \E n \in TopicPool : \E p \in PartitionCounts :
          \E o \in BrokerOutcomes : CallCreate(api, n, p, o)
    \/ \E api \in Apis : \E n \in TopicPool : \E o \in BrokerOutcomes :
          CallDelete(api, n, o)

SpecTopic == InitTopic /\ [][NextTopic]_vars

InitParse ==
    PipeIdle /\ ModelsIdle /\ PyIdle /\ CwIdle /\ TopicIdle
        /\ ParseInit /\ LoadIdle /\ ConfigIdle /\ DeliveryIdle

NextParse == FromString

SpecParse == InitParse /\ [][NextParse]_vars

InitLoad ==
    PipeIdle /\ ModelsIdle /\ PyIdle /\ CwIdle /\ TopicIdle
        /\ ParseIdle /\ LoadInit /\ ConfigIdle /\ DeliveryIdle

NextLoad == LoadScenarios

SpecLoad == InitLoad /\ [][NextLoad]_vars

InitConfig ==
    PipeIdle /\ ModelsIdle /\ PyIdle /\ CwIdle /\ TopicIdle
        /\ ParseIdle /\ LoadIdle /\ ConfigInit /\ DeliveryIdle

NextConfig == GetBootstrapServers

SpecConfig == InitConfig /\ [][NextConfig]_vars

\* one worker of the Python backend and the delivery reports of its messages
InitDelivery ==
    PipeIdle /\ ModelsIdle /\ PyIdle /\ CwIdle /\ TopicIdle
        /\ ParseIdle /\ LoadIdle /\ ConfigIdle /\ DeliveryInit

NextDelivery ==
    \/ DlProduce
    \/ DlProduceRaises
    \/ \E err \in BOOLEAN : \E l \in Latencies : DlPoll(err, l)
    \/ DlLoopExit
    \/ \E err \in BOOLEAN : \E l \in Latencies : DlFlushCallback(err, l)
    \/ DlFlushReturn
    \/ DlReturn

SpecDelivery == InitDelivery /\ [][NextDelivery]_vars

\* ------------------------------------------------------------------ claims
CliPipeline == ~IsSingle(command) /\ Backend(command) = "cli"
PythonPipeline == ~IsSingle(command) /\ Backend(command) = "python"

\* the scenarios that have a data row in summary.csv, in file order
SummaryScenarios ==
    [i \in 1..(Len(summary) - 1) |-> summary[i + 1].scenario]

FirstFailed(res) ==
    CHOOSE k \in 1..Len(res) :
        /\ ~success(res[k])
        /\ \A i \in 1..(k - 1) : success(res[i])

SomeFailed(res) == \E k \in 1..Len(res) : ~success(res[k])

\* no topic request and no worker launch for a scenario after the k-th
NothingStartedAfter(k) ==
    /\ idx <= k
    /\ \A i \in 1..Len(topic_log) : topic_log[i].topic <= k
    /\ \A i \in 1..Len(launch_log) : launch_log[i] <= k

\* C1: KafkaCliRunner.run_scenarios is fail-fast. If scenario k is the first whose
\* result has success = false, no scenario after k is started, the results list has
\* length k, exactly scenarios 1..k-1 have a summary row, and the run ends with an
\* exception (never by returning).
C1_CliFailFast ==
    (CliPipeline /\ SomeFailed(results)) =>
        LET k == FirstFailed(results)
        IN /\ Len(results) = k
           /\ NothingStartedAfter(k)
           /\ SummaryScenarios = [i \in 1..(k - 1) |-> i]
           /\ pc \in {"rs_check", "cmd_exit", "exited"}
           /\ pc # "rs_check" => error = "ScenarioFailure"

\* scenario 2 of 3 failed after scenario 1 succeeded, and the run has ended
C1_Witness ==
    /\ CliPipeline
    /\ Len(scenarios) = 3
    /\ Len(results) = 2
    /\ success(results[1])
    /\ ~success(results[2])
    /\ pc = "exited"

\* C2: ScenarioRunner.run_scenarios is fail-fast: once a result has success = false
\* no later scenario is run, the failed scenario gets no summary row, and the run
\* does not return normally.
C2_PythonFailFast ==
    (PythonPipeline /\ SomeFailed(results)) =>
        LET k == FirstFailed(results)
        IN /\ Len(results) = k
           /\ NothingStartedAfter(k)
           /\ \A i \in 1..Len(SummaryScenarios) : SummaryScenarios[i] # k
           /\ pc \in {"cmd_exit", "exited"} => error # "none"

\* the futures of the current scenario
N == scenario.producers
Succeeded(j) == worker[j].st = "returned" /\ worker[j].m.record_count > 0
AllFinished == \A j \in 1..N : worker[j].st \in {"returned", "raised"}
SucceededCount == Cardinality({j \in 1..N : Succeeded(j)})

\* _run_timed_producers has returned its list, or has raised
OrchestratorReturned == pc = "aggregate"
OrchestratorRaised ==
    pc = "cmd_exit" /\ error \in {"AllProducersFailed", "SomeProducersFailed"}

\* C3: with N >= 2 producers of which 1..N-1 succeed (the others raise or return
\* record_count = 0), the orchestrator raises a partial-producer-failure error and
\* never returns a metrics list.
C3_PartialFailureRaises ==
    ((OrchestratorReturned \/ OrchestratorRaised)
        /\ N >= 2 /\ AllFinished /\ SucceededCount >= 1 /\ SucceededCount <= N - 1)
    => (OrchestratorRaised /\ error = "SomeProducersFailed")

\* C4: when no worker succeeds (each raises or returns record_count = 0), the
\* orchestrator raises an all-producers-failed error, so that run_scenario returns
\* no ScenarioResult.
C4_AllFailedRaises ==
    ((OrchestratorReturned \/ OrchestratorRaised) /\ AllFinished /\ SucceededCount = 0)
    => (OrchestratorRaised /\ error = "AllProducersFailed")

RECURSIVE SumTo(_, _)
SumTo(f, n) == IF n = 0 THEN 0 ELSE SumTo(f, n - 1) + f[n]

IsAggregateOf(r, pm) ==
    /\ r.total_throughput = SumTo([i \in 1..Len(pm) |-> pm[i].throughput], Len(pm))
    /\ r.avg_latency.den > 0
    /\ r.avg_latency.num * Len(pm) =
          SumTo([i \in 1..Len(pm) |-> pm[i].avg_latency], Len(pm)) * r.avg_latency.den
    /\ \E i \in 1..Len(pm) : r.max_latency = pm[i].max_latency
    /\ \A i \in 1..Len(pm) : r.max_latency >= pm[i].max_latency

C6_WitnessOf(b) ==
    /\ Backend(command) = b
    /\ results # <<>>
    /\ LET r == results[Len(results)]
       IN /\ Len(r.producer_metrics) >= 2
          /\ \E i, j \in 1..Len(r.producer_metrics) :
                /\ r.producer_metrics[i].record_count = 0
                /\ r.producer_metrics[j].record_count > 0

C7_WorkerIndexOrder ==
    /\ OrchestratorReturned =>
          /\ Len(metrics) = N
          /\ \A j \in 1..N : worker[j].st = "returned" /\ metrics[j] = worker[j].m
    /\ pc = "rs_check" =>
          LET rows == results_csv[Len(results_csv)].rows
          IN /\ Len(rows) = N
             /\ \A j \in 1..N : rows[j].producer = j /\ rows[j].m = worker[j].m

\* C10: every command exits with a non-zero status when a scenario it ran has
\* success = false or when an error aborted the execution of its scenarios.
C10_NonZeroExit ==
    (pc = "exited" /\ (SomeFailed(results) \/ error \notin {"none", "InitError"}))
    => exit_status # 0

PyRunning == py_pc \in {"loop", "throttle", "flush", "metrics"}

\* C8: the wait for a worker is bounded: no worker is still running later than
\* duration + grace (5 s) after its start.
C8_BoundedWorkerTime ==
    /\ PyRunning =>
          py_now <= py_start_time + py_duration * 1000 + TerminateTimeout * 1000
    /\ cw_pc \in {"popen", "poll", "wait", "parse"} =>
          cw_now <= cw_start_time + cw_duration + TerminateTimeout

\* C9: the sending window of a worker is bounded by the deadline start + duration
\* and not by a message count: no send is issued at or after the deadline, and a
\* worker whose sends succeed does not stop before the deadline because its
\* message quota is used up.
C9_DeadlineBoundedSending ==
    /\ py_message_count > 0 => py_last_send < py_end_time
    /\ child_sent > 0 => child_last_send < cw_start_time + cw_duration
    /\ child_exit = "quota" => child_exit_time >= cw_start_time + cw_duration

\* ------------------------------------------------------------------ pipeline, topics
\* the errors that end a scenario: topic creation, the producers, the result
ScenarioFatal ==
    {"TopicCreationError", "AllProducersFailed", "SomeProducersFailed",
     "ScenarioFailure"}

\* the error has left run_scenarios
RunScenariosRaised(errs) ==
    ~IsSingle(command) /\ pc \in {"cmd_exit", "exited"} /\ error \in errs

\* C11: when a scenario-fatal error occurs inside run_scenarios, the HTML report is
\* generated from the summary rows written so far before the error leaves
\* run_scenarios, in both backends.
C11_PartialReportOnError ==
    RunScenariosRaised(ScenarioFatal) =>
        /\ report # <<>>
        /\ report[Len(report)] = Len(summary) - 1

\* the calls of topic_log for scenario i
TopicCalls(op, i) ==
    {k \in 1..Len(topic_log) : topic_log[k].op = op /\ topic_log[k].topic = i}

NoWorkerRunning == \A j \in 1..MaxProducers : worker[j].st # "running"

\* positions of run_scenarios inside the loop body, before the summary row
BeforeSummaryRow ==
    {"create_topic", "submit", "collect", "collected", "aggregate", "rs_check"}

\* C12: summary.csv gets its header once and then exactly one row per completed
\* scenario, in input order; a row is appended after all workers of its scenario
\* have finished and its aggregates are computed, before the next scenario starts,
\* and never while a worker is running.
C12_SummaryRows ==
    (~IsSingle(command) /\ summary # <<>>) =>
        /\ summary[1] = HeaderRow
        /\ \A i \in 2..Len(summary) :
              /\ Len(results) >= i - 1
              /\ summary[i] = SummaryRow(scenarios[i - 1], results[i - 1])
        /\ pc \in BeforeSummaryRow => Len(summary) - 1 = idx - 1
        /\ pc \in {"rs_sleep", "rs_loop"} => Len(summary) - 1 = idx
        /\ pc \in {"rs_check", "rs_sleep"} =>
              /\ NoWorkerRunning
              /\ Len(results) = idx
              /\ IsAggregateOf(results[idx], results[idx].producer_metrics)
                    \/ results[idx].producer_metrics = <<>>

\* the row of the second scenario has just been written, after a first scenario
\* without records
C12_Witness ==
    /\ ~IsSingle(command)
    /\ pc = "rs_sleep"
    /\ Len(summary) = 3
    /\ ~success(results[1])
    /\ scenarios[2].producers >= 2

\* run_scenario is over for scenario i
ScenarioOver(i) ==
    \/ i < idx
    \/ i = idx /\ pc \in {"rs_check", "rs_sleep", "rs_loop", "cmd_exit", "exited"}

Created(i) == \E k \in TopicCalls("create", i) : topic_log[k].result = "True"

CreateFailed(i) == \E k \in TopicCalls("create", i) : topic_log[k].result # "True"

\* C14: if topic creation fails, run_scenario raises before any worker is
\* launched, no results.csv and no summary row is written for the scenario, no
\* deletion is requested, and the error leaves run_scenarios: no later scenario
\* runs.
C14_CreationFailure ==
    \A i \in 1..Len(scenarios) :
        CreateFailed(i) =>
            /\ \A k \in 1..Len(launch_log) : launch_log[k] # i
            /\ \A k \in 1..Len(results_csv) : results_csv[k].scenario # i
            /\ \A k \in 2..Len(summary) : summary[k].scenario # i
            /\ TopicCalls("delete", i) = {}
            /\ NothingStartedAfter(i)
            /\ pc \in {"cmd_exit", "exited"}
            /\ error = "TopicCreationError"

\* the creation for the second scenario of three failed
C14_Witness ==
    /\ Len(scenarios) = 3
    /\ CreateFailed(2)
    /\ Len(results) = 1
    /\ pc = "exited"

DeleteFailed(i) == \E k \in TopicCalls("delete", i) : topic_log[k].result # "True"

\* C15: a failure of topic deletion (a broker that cannot be reached or listed
\* included) is only logged: run_scenario does not raise because of it, the
\* ScenarioResult it returns is the one it computed, and run_scenarios goes on.
C15_DeletionFailureIsLogged ==
    \A i \in 1..Len(scenarios) :
        DeleteFailed(i) =>
            /\ error # "TopicDeletionError"
            /\ (\E k \in 1..Len(results_csv) : results_csv[k].scenario = i) =>
                  /\ Len(results) >= i
                  /\ \E k \in 1..Len(results_csv) :
                        results_csv[k] = SaveScenarioResults(results[i])

C17_OneScenarioAtATime ==
    /\ \A k \in 1..(Len(launch_log) - 1) : launch_log[k] <= launch_log[k + 1]
    /\ \A k \in 1..(Len(topic_log) - 1) : topic_log[k].topic <= topic_log[k + 1].topic
    /\ \A i \in 1..Len(results) : results[i].scenario = scenarios[i]
    /\ pc \in {"create_topic", "submit", "collect", "collected", "aggregate"} =>
          /\ Len(results) = idx - 1
    /\ pc = "create_topic" =>
          /\ NoWorkerRunning
          /\ \A k \in 1..Len(launch_log) : launch_log[k] < idx
    /\ \A j \in 1..MaxProducers :
          worker[j].st = "running" => launch_log[Len(launch_log)] = idx

\* the workers of the third scenario run after two recorded results
C17_Witness ==
    /\ Len(scenarios) = 3
    /\ idx = 3
    /\ Len(results) = 2
    /\ pc = "collect"
    /\ \E j \in 1..MaxProducers : worker[j].st = "running"
    /\ \E j \in 1..MaxProducers : worker[j].st = "returned"

\* ------------------------------------------------------------------ workers, errors
\* the Python worker was constructed and has returned its ProducerMetrics
PyReturned == py_pc = "returned" /\ py_end_time > 0

\* C18: in the Python worker a message whose send or delivery fails is not
\* counted: record_count is the number of messages whose delivery was acknowledged
\* without error (0 when every message fails).
C18_CountsAcknowledged ==
    PyReturned =>
        py_metrics.record_count = py_message_count - py_delivery_failed

\* C19: in the Python worker an error while sending one message (raised by the
\* send call, or a failed delivery report) does not abort the worker: it leaves
\* its send loop only at its deadline.
C19_SendErrorDoesNotAbort ==
    (py_pc = "flush" /\ (py_send_error \/ py_delivery_failed > 0)) =>
        py_now >= py_end_time

\* the CLI worker was started and has returned its ProducerMetrics
CwReturned == cw_pc = "returned" /\ cw_num_messages > 0

\* C20: a worker whose client (or child process) cannot be constructed, or whose
\* send loop is ended by an error, raises to the orchestrator and never returns a
\* ProducerMetrics, in both backends.
C20_FailedWorkerRaises ==
    /\ PyReturned => ~py_send_error
    /\ CwReturned => (child # "none" /\ child_exit # "crash")


\* ------------------------------------------------------------------ claims: scenario strings
Parsed == sp_pc = "parsed"

\* the value written in field i, or the default when the field is left out
Written(i, default) ==
    IF Len(sp_fields) >= i /\ sp_fields[i].kind = "int"
      THEN sp_fields[i].val ELSE default

\* name,msgSize,throughput and up to two more fields, every number an integer
WellFormed ==
    /\ Len(sp_fields) \in 3..5
    /\ sp_fields[2].kind = "int"
    /\ sp_fields[3].kind = "int"
    /\ \A i \in 4..Len(sp_fields) : sp_fields[i].kind \in {"int", "empty"}

\* C21: for every well-formed scenario string, with or without a trailing
\* comment and surrounding whitespace, from_string returns a scenario whose
\* fields equal the values written; an omitted duration is 60 and omitted
\* producers are 1.
C21_FromStringRoundTrip ==
    (Parsed /\ WellFormed) =>
        /\ sp_result.ok
        /\ sp_result.value.name = sp_fields[1].val
        /\ sp_result.value.msg_size = sp_fields[2].val
        /\ sp_result.value.throughput = sp_fields[3].val
        /\ sp_result.value.duration = Written(4, 60)
        /\ sp_result.value.producers = Written(5, 1)

\* a commented, padded line of three fields parsed with both defaults
C21_Witness ==
    /\ Parsed
    /\ WellFormed
    /\ Len(sp_fields) = 3
    /\ sp_fields[1].text # sp_fields[1].val
    /\ sp_comment # <<>>
    /\ sp_wrap # <<>>
    /\ sp_result.ok
    /\ sp_result.value.duration = 60
    /\ sp_result.value.producers = 1

\* C22: from_string raises ValueError, and returns no scenario, for every
\* string with fewer than 3 comma-separated fields once its comment is removed.
C22_TooFewFieldsRaises ==
    (Parsed /\ Len(sp_fields) < 3) =>
        ~sp_result.ok /\ sp_result.error = "ValueError"

\* two fields followed by a comment that itself holds commas
C22_Witness ==
    /\ Parsed
    /\ Len(sp_fields) = 2
    /\ sp_fields[2].kind = "int"
    /\ Contains(sp_comment, ",")
    /\ ~sp_result.ok
    /\ sp_result.error = "ValueError"

\* C24: every scenario from_string returns has msg_size > 0, duration > 0 and
\* producers >= 1; a string outside these bounds is rejected.
C24_FieldBounds ==
    (Parsed /\ sp_result.ok) =>
        /\ sp_result.value.msg_size > 0
        /\ sp_result.value.duration > 0
        /\ sp_result.value.producers >= 1

\* C27: a line that gives only name and msgSize, or leaves the throughput
\* field empty, parses with throughput = -1.
C27_ThroughputOptional ==
    (/\ Parsed
     /\ Len(sp_fields) \in 2..5
     /\ sp_fields[2].kind = "int"
     /\ Len(sp_fields) >= 3 => sp_fields[3].kind = "empty"
     /\ \A i \in 4..Len(sp_fields) : sp_fields[i].kind \in {"int", "empty"})
        => sp_result.ok /\ sp_result.value.throughput = -1


\* ------------------------------------------------------------------ claims: scenario files
Loaded == ld_pc = "loaded"

\* the scenarios of the scenario lines of a file, in file order
RECURSIVE ScenariosOf(_)
ScenariosOf(file) ==
    IF file = <<>> THEN <<>>
    ELSE (IF Head(file).kind = "scenario" THEN <<Head(file).value>> ELSE <<>>)
             \o ScenariosOf(Tail(file))

Malformed == {i \in 1..Len(ld_file) : ld_file[i].kind = "malformed"}

\* C23: load_scenarios returns, in file order, exactly the scenarios of the
\* well-formed lines, however many malformed lines the file holds, and reports
\* each malformed line with its content and its line number, in both backends.
C23_MalformedLinesReported ==
    Loaded =>
        /\ ld_scenarios = ScenariosOf(ld_file)
        /\ Len(ld_reports) = Cardinality(Malformed)
        /\ \A i \in Malformed :
               \E k \in 1..Len(ld_reports) :
                   /\ ld_reports[k].line = strip(ld_file[i].text)
                   /\ ld_reports[k].line_number = <<i>>


\* ------------------------------------------------------------------ claims: client configuration
ConfigDone == cf_pc = "done"

Priority ==
    <<"bootstrap.servers", "bootstrap_servers", "bootstrapServers",
      "broker.list", "metadata.broker.list">>

PresentKeys == {i \in 1..Len(Priority) : Priority[i] \in DOMAIN cf_input}

\* C29: get_bootstrap_servers returns the value of the first key present in
\* the order bootstrap.servers, bootstrap_servers, bootstrapServers,
\* broker.list, metadata.broker.list; it raises ValueError if and only if none
\* of them is present; the config is left unchanged.
C29_BootstrapServersPriority ==
    ConfigDone =>
        /\ (PresentKeys = {}) <=> ~cf_result.ok
        /\ ~cf_result.ok => cf_result.error = "ValueError"
        /\ \A i \in PresentKeys :
               (\A j \in PresentKeys : i <= j)
                   => cf_result.value = cf_input[Priority[i]]
        /\ cf_config = cf_input

\* a config with a broker list and a lower-priority bootstrap key of another
\* value, and a key that is none of the five
C29_Witness ==
    /\ ConfigDone
    /\ PresentKeys = {2, 4, 5}
    /\ "client.id" \in DOMAIN cf_input
    /\ cf_input[Priority[2]] # cf_input[Priority[4]]
    /\ cf_result.ok
    /\ cf_result.value = cf_input[Priority[2]]


\* ------------------------------------------------------------------ claims: partitions
ExpectedPartitions(p) == IF 2 * p >= 3 THEN 2 * p ELSE 3

Launched(i) == \E k \in 1..Len(launch_log) : launch_log[k] = i

\* run_scenario has made its topic creation call for scenario i
PastCreation(i) == i < idx \/ (i = idx /\ pc # "create_topic")

\* C28: for every scenario, run_scenario requests the creation of the topic of
\* the scenario with exactly max(3, 2 * producers) partitions, in both
\* backends, before any worker of that scenario is launched.
C28_TopicPartitions ==
    \A i \in 1..Len(scenarios) :
        /\ \A k \in TopicCalls("create", i) :
               topic_log[k].partitions = ExpectedPartitions(scenarios[i].producers)
        /\ Launched(i) => TopicCalls("create", i) # {}
        /\ Cardinality(TopicCalls("create", i)) = (IF PastCreation(i) THEN 1 ELSE 0)

\* a one-producer scenario got 3 partitions and a two-producer scenario 4, and
\* the workers of the second are running
C28_Witness ==
    /\ Len(scenarios) >= 2
    /\ scenarios[1].producers = 1
    /\ scenarios[2].producers = 2
    /\ \E k \in TopicCalls("create", 1) : topic_log[k].partitions = 3
    /\ \E k \in TopicCalls("create", 2) : topic_log[k].partitions = 4
    /\ Launched(2)


\* ------------------------------------------------------------------ claims: throttle
\* the worker is back at the head of its loop after a batch and its throttle step
AfterThrottle == py_pc = "loop" /\ py_batch_count > 0

\* C30: with target rate R > 0, after each batch of B <= 100 sends the worker
\* waits exactly max(0, B/R - elapsed), elapsed being the time since the last
\* checkpoint, and then resets the checkpoint; with an unlimited rate
\* (throughput <= 0) it never waits. (Times in milliseconds; the equation is
\* multiplied by R.)
C30_ThrottleWait ==
    /\ (AfterThrottle /\ throttle) =>
          LET elapsed == (py_now - py_slept) - py_first_send
          IN /\ py_batch_count <= batch_size
             /\ py_slept * py_throughput =
                    Max2(0, py_batch_count * 1000 - elapsed * py_throughput)
             /\ py_batch_start = py_now
    /\ ~throttle => py_slept = 0

\* a second batch that was sent late and still got a positive wait
C30_Witness ==
    /\ AfterThrottle
    /\ throttle
    /\ py_message_count > py_batch_count
    /\ py_now - py_slept > py_first_send
    /\ py_slept > 0


\* ------------------------------------------------------------------ claims: report artifacts
\* C25: in run_scenarios report.html is regenerated after every scenario, so
\* at every point after the first completed scenario the report shows all the
\* scenarios completed so far.
C25_ReportAfterEveryScenario ==
    (~IsSingle(command) /\ Len(summary) >= 2) =>
        /\ report # <<>>
        /\ report[Len(report)] = Len(summary) - 1

\* C26: a failure to write results.csv, summary.csv or report.html is never
\* fatal: it is not the error that ends run_scenario, run_scenarios or the
\* command.
C26_WriteFailureNotFatal == error # "ReportWriteError"


\* ------------------------------------------------------------------ claims: Python worker, rate and deadline
\* C31: when sends are instantaneous, for every target rate R > 0 and every
\* duration, the throttle sleeps bring the achieved rate
\* record_count / actual_duration within 5% of R.
C31_AchievedRate ==
    (PyReturned /\ throttle /\ py_instant /\ ~py_send_error) =>
        LET tp == py_metrics.throughput
        IN /\ py_metrics.record_count > 0
           /\ 100 * tp.num >= 95 * py_throughput * tp.den
           /\ 100 * tp.num <= 105 * py_throughput * tp.den

\* R = 1000/sec, duration 2 s, batches of 100: 2000 records in 2 s
C31_Witness ==
    /\ PyReturned
    /\ py_instant
    /\ ~py_send_error
    /\ py_throughput = 1000
    /\ py_duration = 2
    /\ py_metrics.record_count = 2000
    /\ py_metrics.duration = 2000


\* C32: a throttle wait never carries the worker past its deadline: the worker
\* leaves its send loop no later than start + duration plus the time of the
\* batch in progress.
C32_ThrottleWithinDeadline ==
    (py_pc = "flush" /\ throttle /\ ~py_send_error) =>
        LET batch_time == (py_now - py_slept) - py_first_send
        IN py_now <= py_end_time + batch_time


\* ------------------------------------------------------------------ claims: Python worker, deliveries
\* C33: the final metrics are computed only after the flush has returned:
\* every delivery callback of the worker has run before the metrics are
\* computed and the ProducerMetrics is returned, also when the send loop was
\* ended by an error.
C33_MetricsAfterFlush ==
    dl_pc \in {"metrics", "returned"} =>
        /\ dl_in_flight = 0
        /\ Len(dl_acked) + dl_failed = dl_message_count

\* a send error ended the loop with messages in flight, and the worker returned
C33_Witness ==
    /\ dl_pc = "returned"
    /\ dl_send_error
    /\ dl_message_count = 2
    /\ Len(dl_acked) = 2
    /\ dl_metrics.max_latency = 4

\* C34: avg_latency is the mean of the latencies of the acknowledged messages
\* and max_latency their maximum (both 0 when none was acknowledged); failed
\* deliveries contribute to neither the sum, the maximum, nor the divisor.
C34_LatencyOfAcknowledged ==
    dl_pc = "returned" =>
        /\ dl_metrics.max_latency =
               (IF dl_acked = <<>> THEN 0 ELSE MaxSeq(dl_acked))
        /\ IF dl_acked = <<>> THEN dl_metrics.avg_latency.num = 0
           ELSE dl_metrics.avg_latency.num * Len(dl_acked) =
                    SumSeq(dl_acked) * dl_metrics.avg_latency.den


\* ------------------------------------------------------------------ claims: CLI worker
\* the time at which the loop of the worker ended
LoopEndTime == cw_start_time + cw_time_elapsed

Sent(sig) == \E k \in 1..Len(cw_signals) : cw_signals[k] = sig

\* C35: a child still running once the duration has elapsed is first sent
\* terminate, and kill only if it has not exited 5 seconds after that; the
\* child has exited before the worker returns its metrics; a child that exits on
\* its own before the deadline is sent neither terminate nor kill.
C35_TerminateThenKill ==
    /\ cw_signals \in {<<>>, <<"terminate">>, <<"terminate", "kill">>}
    /\ Sent("terminate") => cw_time_elapsed >= cw_duration
    /\ cw_pc = "wait" => cw_signals = <<"terminate">>
    /\ Sent("kill") =>
          /\ cw_now = LoopEndTime + TerminateTimeout
          /\ child_exit_time >= LoopEndTime + TerminateTimeout
    /\ cw_pc \in {"parse", "returned"} => child # "running"
    /\ (child = "exited" /\ child_exit_time <= cw_start_time + cw_duration
          /\ child_exit # "terminated") => cw_signals = <<>>

\* a child that ignored terminate was killed and the worker returned
C35_Witness ==
    /\ CwReturned
    /\ cw_signals = <<"terminate", "kill">>
    /\ child = "exited"

\* C38: the number of records the perf tool is asked to send is at least
\* messages_per_sec * duration (messages_per_sec = throughput when
\* throughput > 0, otherwise 1000), also after the clamp to [1000, 100000000].
C38_EnoughRecords ==
    cw_num_messages > 0 =>
        cw_num_messages >=
            (IF cw_throughput > 0 THEN cw_throughput ELSE 1000) * cw_duration


\* ------------------------------------------------------------------ claims: pipeline, aggregation and cooldown
\* C36: the aggregation step of run_scenario is never evaluated over an empty
\* metrics list: in both backends the orchestrator hands it at least one
\* ProducerMetrics or raises beforehand.
C36_AggregationNeverEmpty ==
    /\ pc = "aggregate" => metrics # <<>>
    /\ \A i \in 1..Len(results) : results[i].producer_metrics # <<>>

\* C37: in run_scenarios the cooldown is slept exactly once between each pair
\* of consecutive scenarios, after the earlier one succeeded and before the
\* next one starts; not after a failed scenario and not when there is no next
\* scenario.
C37_CooldownBetweenScenarios ==
    ~IsSingle(command) =>
        /\ \A k \in 1..Len(sleeps) :
              /\ sleeps[k] = k
              /\ sleeps[k] < Len(scenarios)
              /\ success(results[sleeps[k]])
        /\ pc \in BeforeSummaryRow => Len(sleeps) = idx - 1


\* ------------------------------------------------------------------ claims: pre-existing topics
\* the creation call of scenario i found the topic on the broker
PreExisted(i) ==
    \E k \in TopicCalls("create", i) :
        topic_log[k].requests = <<"list">> /\ topic_log[k].result = "True"

\* C39: run_scenario leaves a topic that existed before the scenario untouched:
\* it deletes only a topic that it created itself, so a pre-existing topic
\* with the name of the scenario's topic still exists when the scenario is over.
C39_PreExistingTopicKept ==
    \A i \in 1..Len(scenarios) :
        PreExisted(i) =>
            /\ i \in TopicNames(topics)
            /\ \A k \in TopicCalls("delete", i) :
                   \A r \in 1..Len(topic_log[k].requests) :
                       topic_log[k].requests[r] # "delete"

====
